---- MODULE Spec2Model ----
(***************************************************************************)
(* Model of the SiS USB-to-VGA adapter emulator (register/VRAM bridge,     *)
(* bulk reassembly, endpoint workers) of usb-gadget-tests.                 *)
(*                                                                         *)
(* Two builds share the code: the overflow-test build (src/src/mouse/      *)
(* mouse.c, lines 601-1699) and the ioctl-test build (src/unnamed/         *)
(* part_001).  The variable "build" selects the compile-time differences.  *)
(*                                                                         *)
(* A uint32_t is a record [hi, lo] of two 16-bit halves, because the       *)
(* values (0xD0000000, 0xFFFFFFF0) exceed the 32-bit integers of TLC;       *)
(* all arithmetic on them is modulo 2^32 as in the C code.                 *)
(***************************************************************************)
EXTENDS Integers, Sequences, FiniteSets, TLC

VARIABLES
    strict_bounds_check, \* static bool strict_bounds_check
    keep_running,   \* static volatile bool keep_running
    build,          \* "overflow" (mouse.c) or "ioctl" (part_001)
    pci_config,     \* uint32_t pci_config[128]   (non-zero entries only)
    bridge_reg,     \* uint32_t bridge_reg[1024]  (non-zero entries only)
    gfx_reg,        \* uint32_t gfx_reg[128]      (non-zero entries only)
    vram,           \* uint8_t  vram[VRAM_SIZE]   (non-zero entries only)
    bulk_state,     \* {address, length, flags, configured}
    overflow,       \* static volatile bool overflow
    ramtype_req,    \* static bool ramtype_req  (process_packet_gfx)
    vramsize_req,   \* static bool vramsize_req (process_packet_gfx)
    corner_hits,    \* static int corner_hits   (process_packet_gfx)
    main_running,   \* static volatile bool main_running
    oob,            \* a memcpy has written outside vram[0, VRAM_SIZE)
    gfx_io_data,    \* bytes 6..9 of the GFX worker's receive buffer
    bridge_io_data, \* bytes 6..9 of the bridge worker's receive buffer
    ep_handle,      \* int ep_gfx_out, ep_gfx_in, ... (-1: not enabled)
    spawned,        \* how often the four worker threads have been created
    device_init,    \* static volatile bool device_init
    exited,         \* the process has called exit()
    ep0_pc,         \* position of the control loop in ep0_loop
    pc,             \* position of each bulk worker inside its loop body
    loc,            \* locals of each bulk worker (chunk, loaded values)
    log,            \* transfers handled so far, with the result of each
    cfg_in,         \* get_vram_config_reg: the arguments drawn
    cfg_out         \* get_vram_config_reg: the value returned

vars == <<build, strict_bounds_check, keep_running, pci_config, bridge_reg, gfx_reg, vram, bulk_state, overflow,
          ramtype_req, vramsize_req, corner_hits, main_running, oob,
          gfx_io_data, pc, loc, log, cfg_in, cfg_out, bridge_io_data,
          ep_handle, spawned, device_init, exited, ep0_pc>>

\* the state of the control plane: endpoints, threads, the control loop
ctlvars == <<ep_handle, spawned, device_init, exited, ep0_pc>>

----------------------------------------------------------------------------
(* uint32_t arithmetic *)

W16 == 2^16

U32(hi, lo) == [hi |-> hi, lo |-> lo]

Zero32 == U32(0, 0)

\* a natural number below 2^31 as a uint32_t
FromNat(n) == U32(n \div W16, n % W16)

\* the value of a uint32_t below 2^31
Val(a) == a.hi * W16 + a.lo

Add32(a, b) ==
    LET s == a.lo + b.lo
    IN  U32((a.hi + b.hi + (s \div W16)) % W16, s % W16)

Sub32(a, b) ==
    LET borrow == IF a.lo < b.lo THEN 1 ELSE 0
    IN  U32((a.hi - b.hi - borrow + 2 * W16) % W16, (a.lo - b.lo + W16) % W16)

Gt32(a, b) == a.hi > b.hi \/ (a.hi = b.hi /\ a.lo > b.lo)

Lt32(a, b) == Gt32(b, a)

\* byte k (0 = least significant) of a uint32_t: (a >> (8 * k)) & 0xFF
Byte(a, k) ==
    CASE k = 0 -> a.lo % 256
      [] k = 1 -> a.lo \div 256
      [] k = 2 -> a.hi % 256
      [] k = 3 -> a.hi \div 256

FromBytes(b0, b1, b2, b3) == U32(b3 * 256 + b2, b1 * 256 + b0)

\* a << (8 * k), truncated to 32 bits
Shl8(a, k) ==
    LET b(j) == IF j >= k THEN Byte(a, j - k) ELSE 0
    IN  FromBytes(b(0), b(1), b(2), b(3))

\* bit k of a natural number
Bit(n, k) == (n \div (2^k)) % 2

\* bitwise or of two natural numbers below 2^12
BitOr(a, b) ==
    LET bit(k) == IF Bit(a, k) = 1 \/ Bit(b, k) = 1 THEN 2^k ELSE 0
        RECURSIVE sum(_)
        sum(k) == IF k < 0 THEN 0 ELSE bit(k) + sum(k - 1)
    IN  sum(11)

----------------------------------------------------------------------------
(* the stores: zero-initialised arrays, kept as their non-zero entries *)

Load(f, i, zero) == IF i \in DOMAIN f THEN f[i] ELSE zero

Store(f, i, v, zero) ==
    IF v = zero
    THEN [j \in (DOMAIN f) \ {i} |-> f[j]]
    ELSE [j \in (DOMAIN f) \cup {i} |-> IF j = i THEN v ELSE f[j]]

EmptyStore == [j \in {} |-> 0]

----------------------------------------------------------------------------
(* program constants *)

SISUSB_TYPE_MEM == 0
SISUSB_TYPE_IO == 1

SISUSB_PCI_MEMBASE == U32(\hD000, 0)

PCI_CONFIG_SIZE == 128
PCI_BRIDGE_REG_SIZE == 1024
GFX_REG_SIZE == 128

VRAM_SIZE == 8 * (1024 * 1024)
VRAM_SIZE_BAD == U32(\h4000, 0)

RAM_TYPE_SDR == 1
RAM_TYPE_DDR == 3
RAM_TYPE == IF build = "overflow" THEN RAM_TYPE_SDR ELSE RAM_TYPE_DDR

SISUSB_RAM_1CH_1R == 0
SISUSB_RAM_1CH_2R == 1
SISUSB_RAM_ASYM == 2
SISUSB_RAM_2CH == 3
SISUSB_RAM_CONFIG == IF build = "overflow" THEN SISUSB_RAM_1CH_1R ELSE SISUSB_RAM_ASYM

EP_MAX_PACKET_BULK == 512

\* the size of the backing store in both builds
AdvertisedSize_real == FromNat(VRAM_SIZE)

\* the size the VRAM-size query advertises
AdvertisedSize == IF build = "overflow" THEN VRAM_SIZE_BAD ELSE FromNat(VRAM_SIZE)

----------------------------------------------------------------------------
(* get_vram_config_reg *)

\* the loop halving upwards: the ceiling of the logarithm
RECURSIVE Log2Loop_ceil(_, _)
Log2Loop_ceil(mb, power) ==
    IF mb > 1 THEN Log2Loop_ceil((mb + 1) \div 2, (power + 1) % 256) ELSE power

RECURSIVE Log2Loop(_, _)
Log2Loop(mb, power) ==
    IF mb > 1 THEN Log2Loop(mb \div 2, (power + 1) % 256) ELSE power

get_vram_config_reg(size_bytes, mode) ==
    LET mb == size_bytes.hi \div 16          \* size_bytes / (1024 * 1024)
        base == IF mode = SISUSB_RAM_ASYM
                THEN (mb * 2) \div 3
                ELSE IF mode = SISUSB_RAM_1CH_2R \/ mode = SISUSB_RAM_2CH
                     THEN mb \div 2
                     ELSE mb
        power == Log2Loop(base, 0)
    IN  IF mb <= 0 THEN 0
        ELSE BitOr(power * 16, mode * 4) % 256

----------------------------------------------------------------------------
(* vram_bulk_write *)

\* memcpy(&vram[base], data, n) for a range inside the array
RECURSIVE MemCpy(_, _, _, _)
MemCpy(v, base, data, n) ==
    IF n = 0 THEN v
    ELSE Store(MemCpy(v, base, data, n - 1), base + n - 1, data[n], 0)

\* the bounds check with >= for >: a chunk ending exactly at the end of VRAM
\* is rejected
BulkApplied_ge(base_addr, length) ==
    IF ~Lt32(Add32(base_addr, length), FromNat(VRAM_SIZE))
    THEN IF build = "overflow" THEN Zero32
         ELSE Sub32(FromNat(VRAM_SIZE), base_addr)
    ELSE length

\* the bounds check truncating the chunk to the room left in both builds
BulkApplied_trunc(base_addr, length) ==
    IF Gt32(Add32(base_addr, length), FromNat(VRAM_SIZE))
    THEN Sub32(FromNat(VRAM_SIZE), base_addr)
    ELSE length

\* the length left after the bounds check of vram_bulk_write
BulkApplied(base_addr, length) ==
    IF Gt32(Add32(base_addr, length), FromNat(VRAM_SIZE))
    THEN IF build = "overflow" THEN Zero32
         ELSE Sub32(FromNat(VRAM_SIZE), base_addr)
    ELSE length

\* the copy stays inside vram[0, VRAM_SIZE)
InsideVram(base_addr, length) ==
    /\ ~Gt32(base_addr, FromNat(VRAM_SIZE))
    /\ ~Gt32(length, Sub32(FromNat(VRAM_SIZE), base_addr))

\* the new VRAM, and whether the memcpy left the array (undefined behaviour:
\* the bytes land outside the emulated VRAM, whose contents stay as they were)
vram_bulk_write(v, address, data) ==
    LET base_addr == Sub32(address, SISUSB_PCI_MEMBASE)
        length == BulkApplied(base_addr, FromNat(Len(data)))
    IN  IF length = Zero32 THEN [vram |-> v, oob |-> FALSE]
        ELSE IF InsideVram(base_addr, length)
             THEN [vram |-> MemCpy(v, Val(base_addr), data, Val(length)),
                   oob |-> FALSE]
             ELSE [vram |-> v, oob |-> TRUE]

----------------------------------------------------------------------------
(* process_packet_bridge *)

BULK_ADDR_REGS == {FromNat(\h194), FromNat(\h1d4)}
BULK_LEN_REGS == {FromNat(\h190), FromNat(\h1d0)}
BULK_FLAGS_REGS == {FromNat(\h180), FromNat(\h1c0)}

OVERFLOW_ADDRESS == U32(\hFFFF, \hFFF0)

\* the low half of the address taken as the index, without the division
RegOffset_byte(address) == address.hi * (W16 \div 4) + address.lo

\* reg_offset = address / 4
RegOffset(address) == address.hi * (W16 \div 4) + (address.lo \div 4)

\* the switch with the small-path cases only
BulkConfig_small(bs, address, data) ==
    IF address = FromNat(\h194) THEN [bs EXCEPT !.address = data]
    ELSE IF address = FromNat(\h190) THEN [bs EXCEPT !.length = data]
    ELSE IF address = FromNat(\h180)
         THEN [bs EXCEPT !.flags = data, !.configured = TRUE]
         ELSE bs

\* the switch on the address of a bridge write
BulkConfig(bs, address, data) ==
    IF address \in BULK_ADDR_REGS THEN [bs EXCEPT !.address = data]
    ELSE IF address \in BULK_LEN_REGS THEN [bs EXCEPT !.length = data]
    ELSE IF address \in BULK_FLAGS_REGS
         THEN [bs EXCEPT !.flags = data, !.configured = TRUE]
         ELSE bs

\* the flag follows the probe instead of latching
OverflowProbe_level(bs, ovf) ==
    build = "overflow" /\ bs.address = OVERFLOW_ADDRESS
    /\ Gt32(bs.length, FromNat(16))

\* the probe looking at the address only
OverflowProbe_addr(bs, ovf) ==
    IF build = "overflow" /\ bs.address = OVERFLOW_ADDRESS THEN TRUE ELSE ovf

\* the overflow probe after a bridge write (overflow-test build only)
OverflowProbe(bs, ovf) ==
    IF build = "overflow" /\ bs.address = OVERFLOW_ADDRESS
       /\ Gt32(bs.length, FromNat(16))
    THEN TRUE
    ELSE ovf

\* the bounds check with > for >=: word 1024 is accepted
process_packet_bridge_gt(pkt, is_read) ==
    LET reg_offset == RegOffset(pkt.addr)
        same == [bridge_reg |-> bridge_reg, bulk_state |-> bulk_state,
                 overflow |-> overflow, result |-> Zero32]
        bs == BulkConfig(bulk_state, pkt.addr, pkt.data)
    IN  IF reg_offset > PCI_BRIDGE_REG_SIZE THEN same
        ELSE IF is_read
             THEN [same EXCEPT !.result = Load(bridge_reg, reg_offset, Zero32)]
             ELSE [bridge_reg |-> Store(bridge_reg, reg_offset, pkt.data, Zero32),
                   bulk_state |-> bs,
                   overflow |-> OverflowProbe(bs, overflow),
                   result |-> Zero32]

process_packet_bridge(pkt, is_read) ==
    LET reg_offset == RegOffset(pkt.addr)
        same == [bridge_reg |-> bridge_reg, bulk_state |-> bulk_state,
                 overflow |-> overflow, result |-> Zero32]
        bs == BulkConfig(bulk_state, pkt.addr, pkt.data)
    IN  IF reg_offset >= PCI_BRIDGE_REG_SIZE THEN same
        ELSE IF is_read
             THEN [same EXCEPT !.result = Load(bridge_reg, reg_offset, Zero32)]
             ELSE [bridge_reg |-> Store(bridge_reg, reg_offset, pkt.data, Zero32),
                   bulk_state |-> bs,
                   overflow |-> OverflowProbe(bs, overflow),
                   result |-> Zero32]

----------------------------------------------------------------------------
(* process_packet_gfx *)

PCI_HEADER == \h008f


CORNER_ADDRESS == U32(\hd009, \h5ffc)
CORNER_DATA == U32(\hf100, 0)

\* address & ~SISUSB_PCI_IOPORTBASE: bits 12, 14 and 15 cleared
ClearIoBase(address) ==
    U32(address.hi,
        address.lo - (2^12) * Bit(address.lo, 12) - (2^14) * Bit(address.lo, 14)
                   - (2^15) * Bit(address.lo, 15))

\* the lane offset taken as the low two bits of the header
LaneOffset_bits(low_bits) == low_bits % 4

\* the lane offset selected by the low nibble of an I/O header
LaneOffset(low_bits) ==
    IF low_bits = 8 THEN 3
    ELSE IF low_bits = 4 THEN 2
    ELSE IF low_bits = 2 THEN 1
    ELSE 0

\* curr_addr without the wrap
CurrAddr_nomask(base_addr, i) == Add32(base_addr, FromNat(i))

\* curr_addr wrapped by vram_mask in both modes
CurrAddr_mask(base_addr, i) ==
    LET a == Add32(base_addr, FromNat(i))
    IN  U32(a.hi % (VRAM_SIZE \div W16), a.lo)

\* curr_addr of lane i: base_addr + i, wrapped by vram_mask unless strict
CurrAddr(base_addr, i) ==
    LET a == Add32(base_addr, FromNat(i))
    IN  IF strict_bounds_check THEN a ELSE U32(a.hi % (VRAM_SIZE \div W16), a.lo)

LaneInRange(a) == Lt32(a, FromNat(VRAM_SIZE))

\* the read loop over the four lanes
VramRead(v, base_addr, be_mask) ==
    LET lane(i) == IF Bit(be_mask, i) = 1 /\ LaneInRange(CurrAddr(base_addr, i))
                   THEN Load(v, Val(CurrAddr(base_addr, i)), 0)
                   ELSE 0
    IN  FromBytes(lane(0), lane(1), lane(2), lane(3))

\* the write loop storing all four lanes whatever the mask
VramWrite_all(v, base_addr, be_mask, data, n) ==
    LET cell(i) == Val(CurrAddr(base_addr, i))
        w0 == Store(v, cell(0), Byte(data, 0), 0)
        w1 == Store(w0, cell(1), Byte(data, 1), 0)
        w2 == Store(w1, cell(2), Byte(data, 2), 0)
    IN  Store(w2, cell(3), Byte(data, 3), 0)

\* the write loop over lanes 0 .. n-1
RECURSIVE VramWrite(_, _, _, _, _)
VramWrite(v, base_addr, be_mask, data, n) ==
    IF n = 0 THEN v
    ELSE LET i == n - 1
             w == VramWrite(v, base_addr, be_mask, data, n - 1)
         IN  IF Bit(be_mask, i) = 1 /\ LaneInRange(CurrAddr(base_addr, i))
             THEN Store(w, Val(CurrAddr(base_addr, i)), Byte(data, i), 0)
             ELSE w

\* the state process_packet_gfx reads and writes, as a record
GfxState ==
    [pci_config |-> pci_config, gfx_reg |-> gfx_reg, vram |-> vram,
     ramtype_req |-> ramtype_req, vramsize_req |-> vramsize_req,
     corner_hits |-> corner_hits, main_running |-> main_running,
     result |-> Zero32]

\* the address masked with 255 instead of PCI_CONFIG_SIZE - 1
GfxPci_mask(s, pkt, is_read) ==
    LET address == pkt.addr.lo % 256
    IN  IF is_read
        THEN [s EXCEPT !.result = Load(s.pci_config, address, Zero32)]
        ELSE [s EXCEPT !.pci_config = Store(s.pci_config, address, pkt.data, Zero32)]

\* PCI-config reads served from the array of the bridge registers
GfxPci_bridge(s, pkt, is_read) ==
    LET address == pkt.addr.lo % PCI_CONFIG_SIZE
    IN  IF is_read
        THEN [s EXCEPT !.result = Load(bridge_reg, address, Zero32)]
        ELSE [s EXCEPT !.pci_config = Store(s.pci_config, address, pkt.data, Zero32)]

GfxPci(s, pkt, is_read) ==
    LET address == pkt.addr.lo % PCI_CONFIG_SIZE
    IN  IF is_read
        THEN [s EXCEPT !.result = Load(s.pci_config, address, Zero32)]
        ELSE [s EXCEPT !.pci_config = Store(s.pci_config, address, pkt.data, Zero32)]

\* the one-shot overrides and the arming test, run for reads and writes alike
GfxQuery(s, address, data) ==
    LET r1 == IF s.ramtype_req THEN FromNat(RAM_TYPE) ELSE s.result
        r2 == IF s.vramsize_req
              THEN FromNat(get_vram_config_reg(AdvertisedSize, SISUSB_RAM_CONFIG))
              ELSE r1
        at44 == address = FromNat(\h44)
    IN  [s EXCEPT !.result = r2,
                  !.ramtype_req = at44 /\ data = \h3a,
                  !.vramsize_req = at44 /\ data # \h3a /\ data = \h14]

GfxIo(s, pkt, is_read) ==
    LET offset == LaneOffset(pkt.hdr % 16)
        address == Add32(ClearIoBase(pkt.addr), FromNat(offset))
        lane == address.lo % 4
        data == Byte(pkt.data, lane)
        s1 == IF is_read
              THEN [s EXCEPT !.result = Load(s.gfx_reg, Val(address), Zero32)]
              ELSE [s EXCEPT !.gfx_reg =
                        Store(s.gfx_reg, Val(address), FromNat(data), Zero32)]
        s2 == GfxQuery(s1, address, data)
    IN  IF Lt32(address, FromNat(GFX_REG_SIZE))
        THEN [s2 EXCEPT !.result = Shl8(s2.result, lane)]
        ELSE s

\* the beacon signalling at the first hit
GfxCorner_first(s, pkt) ==
    IF pkt.addr = CORNER_ADDRESS /\ pkt.data = CORNER_DATA
    THEN [s EXCEPT !.corner_hits = s.corner_hits + 1, !.main_running = FALSE]
    ELSE s

\* the frame-complete beacon of a VRAM write
GfxCorner(s, pkt) ==
    IF pkt.addr = CORNER_ADDRESS /\ pkt.data = CORNER_DATA
    THEN [s EXCEPT !.corner_hits = s.corner_hits + 1,
                   !.main_running = IF s.corner_hits + 1 = 2 THEN FALSE
                                    ELSE s.main_running]
    ELSE s

GfxMem(s, pkt, is_read) ==
    LET be_mask == pkt.hdr % 16
        base_addr == Sub32(pkt.addr, SISUSB_PCI_MEMBASE)
    IN  IF is_read
        THEN [s EXCEPT !.result = VramRead(s.vram, base_addr, be_mask)]
        ELSE GfxCorner([s EXCEPT !.vram =
                            VramWrite(s.vram, base_addr, be_mask, pkt.data, 4)],
                       pkt)

\* the access type taken from the whole upper part of the header
HeaderType_wide(header) == header \div 64

\* int type = (header >> 6) & 0x03
HeaderType(header) == (header \div 64) % 4

process_packet_gfx(pkt, is_read) ==
    LET type == HeaderType(pkt.hdr)
    IN  IF pkt.hdr = PCI_HEADER THEN GfxPci(GfxState, pkt, is_read)
        ELSE IF type = SISUSB_TYPE_IO THEN GfxIo(GfxState, pkt, is_read)
        ELSE IF type = SISUSB_TYPE_MEM THEN GfxMem(GfxState, pkt, is_read)
        ELSE GfxState

----------------------------------------------------------------------------
(* the endpoint workers *)

BulkWorkers == {"bulk", "lbulk"}

\* the transfer was not handed to a packet handler
NoResult == U32(-1, -1)

IdleBulk == [address |-> Zero32, length |-> Zero32, flags |-> Zero32,
             configured |-> FALSE]

\* a register transfer of the host: rv bytes, of which a 6-byte transfer
\* carries header and address only
Xfer(len, hdr, addr, data) == [len |-> len, hdr |-> hdr, addr |-> addr, data |-> data]

\* res: the word the handler returned; reply: it was sent on the IN endpoint
LogEntry(ep, xfer, res, reply) ==
    [ep |-> ep, xfer |-> xfer, res |-> res, reply |-> reply]

\* what the log keeps of the state after each transfer
Snapshot(e, bs, v, ovf) ==
    [ep |-> e.ep, xfer |-> e.xfer, res |-> e.res, reply |-> e.reply,
     bs |-> bs, vram |-> v, overflow |-> ovf]

\* bytes 6..9 of a receive buffer after a transfer of len bytes: the bytes
\* the transfer does not reach stay as the previous transfer left them
RecvData(len, data, old) ==
    FromBytes(IF len >= 7 THEN Byte(data, 0) ELSE Byte(old, 0),
              IF len >= 8 THEN Byte(data, 1) ELSE Byte(old, 1),
              IF len >= 9 THEN Byte(data, 2) ELSE Byte(old, 2),
              IF len >= 10 THEN Byte(data, 3) ELSE Byte(old, 3))

\* every transfer that is not a full 10-byte packet taken for a read
IsReadTransfer_short(rv) == rv < 10

\* bool is_read = (rv == 6)
IsReadTransfer(rv) == rv = 6

\* the packet handler called for every transfer, whatever its length
Handled_any(rv) == rv >= 0

\* if (rv >= 6)
Handled(rv) == rv >= 6

\* one iteration of ep_bridge_loop, for a transfer of xfer.len bytes
ep_bridge_loop(xfer) ==
    LET is_read == IsReadTransfer(xfer.len)
        data == RecvData(xfer.len, xfer.data, bridge_io_data)
        r == process_packet_bridge([xfer EXCEPT !.data = data], is_read)
        handled == Handled(xfer.len)
    IN  /\ bridge_io_data' = data
        /\ bridge_reg' = IF handled THEN r.bridge_reg ELSE bridge_reg
        /\ bulk_state' = IF handled THEN r.bulk_state ELSE bulk_state
        /\ overflow' = IF handled THEN r.overflow ELSE overflow
        /\ log' = Append(log,
                Snapshot(LogEntry("bridge", xfer,
                                  IF handled THEN r.result ELSE NoResult,
                                  handled /\ is_read
                                    /\ ep_handle["bridge_in"] # -1),
                         bulk_state', vram, overflow'))
        /\ UNCHANGED <<build, strict_bounds_check, keep_running, pci_config, gfx_reg, vram, ramtype_req,
                       vramsize_req, corner_hits, main_running, oob,
                       gfx_io_data, pc, loc, cfg_in, cfg_out, ctlvars>>

\* one iteration of ep_gfx_loop
ep_gfx_loop(xfer) ==
    LET is_read == IsReadTransfer(xfer.len)
        data == RecvData(xfer.len, xfer.data, gfx_io_data)
        r == process_packet_gfx([xfer EXCEPT !.data = data], is_read)
        handled == Handled(xfer.len)
    IN  /\ gfx_io_data' = data
        /\ pci_config' = IF handled THEN r.pci_config ELSE pci_config
        /\ gfx_reg' = IF handled THEN r.gfx_reg ELSE gfx_reg
        /\ vram' = IF handled THEN r.vram ELSE vram
        /\ ramtype_req' = IF handled THEN r.ramtype_req ELSE ramtype_req
        /\ vramsize_req' = IF handled THEN r.vramsize_req ELSE vramsize_req
        /\ corner_hits' = IF handled THEN r.corner_hits ELSE corner_hits
        /\ main_running' = IF handled THEN r.main_running ELSE main_running
        /\ log' = Append(log,
                Snapshot(LogEntry("gfx", xfer,
                                  IF handled THEN r.result ELSE NoResult,
                                  handled /\ is_read
                                    /\ ep_handle["gfx_in"] # -1),
                         bulk_state, vram', overflow))
        /\ UNCHANGED <<build, strict_bounds_check, keep_running, bridge_reg, bulk_state, overflow, oob, pc, loc,
                       cfg_in, cfg_out, bridge_io_data, ctlvars>>

\* the body of ep_bulk_loop / ep_lbulk_loop after the receive, run to its end
BulkChunk(bs, v, data) ==
    LET w == vram_bulk_write(v, bs.address, data)
        rv == FromNat(Len(data))
        bs1 == [bs EXCEPT !.address = Add32(@, rv), !.length = Sub32(@, rv)]
        bs2 == IF bs1.configured /\ bs1.length = Zero32
               THEN [bs1 EXCEPT !.configured = FALSE, !.address = Zero32,
                                !.flags = Zero32]
               ELSE bs1
    IN  [bulk_state |-> bs2, vram |-> w.vram, oob |-> w.oob]

\* one whole iteration of the bulk worker w for a chunk, with no other
\* worker running in between
ep_bulk_iteration(w, data) ==
    LET r == BulkChunk(bulk_state, vram, data)
    IN  /\ pc[w] = "recv"
        /\ bulk_state' = r.bulk_state
        /\ vram' = r.vram
        /\ oob' = (oob \/ r.oob)
        /\ log' = Append(log,
                Snapshot(LogEntry(w, [bytes |-> data], NoResult, FALSE),
                         bulk_state', vram', overflow))
        /\ UNCHANGED <<build, strict_bounds_check, keep_running, pci_config, bridge_reg, gfx_reg, overflow,
                       ramtype_req, vramsize_req, corner_hits, main_running,
                       gfx_io_data, pc, loc, cfg_in, cfg_out,
                   bridge_io_data, ctlvars>>

\* ep_bulk_loop / ep_lbulk_loop statement by statement: nothing orders the
\* accesses of the two bulk workers to bulk_state and vram, so every
\* interleaving of their loads and stores is an execution
BulkStep(w, from, to) ==
    /\ pc[w] = from
    /\ pc' = [pc EXCEPT ![w] = to]

bulk_recv(w, data) ==
    /\ BulkStep(w, "recv", "write")
    /\ loc' = [loc EXCEPT ![w].data = data]
    /\ log' = Append(log,
            Snapshot(LogEntry(w, [bytes |-> data], NoResult, FALSE),
                     bulk_state, vram, overflow))
    /\ UNCHANGED <<build, strict_bounds_check, keep_running, pci_config, bridge_reg, gfx_reg, vram, bulk_state,
                   overflow, ramtype_req, vramsize_req, corner_hits,
                   main_running, oob, gfx_io_data, cfg_in, cfg_out,
                   bridge_io_data, ctlvars>>

bulk_write(w) ==
    LET r == vram_bulk_write(vram, bulk_state.address, loc[w].data)
    IN  /\ BulkStep(w, "write", "addr_load")
        /\ vram' = r.vram
        /\ oob' = (oob \/ r.oob)
        /\ UNCHANGED <<build, strict_bounds_check, keep_running, pci_config, bridge_reg, gfx_reg, bulk_state,
                       overflow, ramtype_req, vramsize_req, corner_hits,
                       main_running, gfx_io_data, loc, log, cfg_in, cfg_out,
                   bridge_io_data, ctlvars>>

\* bulk_state.address += rv: the load, then the store
bulk_addr_load(w) ==
    /\ BulkStep(w, "addr_load", "addr_store")
    /\ loc' = [loc EXCEPT ![w].tmp = bulk_state.address]
    /\ UNCHANGED <<build, strict_bounds_check, keep_running, pci_config, bridge_reg, gfx_reg, vram, bulk_state,
                   overflow, ramtype_req, vramsize_req, corner_hits,
                   main_running, oob, gfx_io_data, log, cfg_in, cfg_out,
                   bridge_io_data, ctlvars>>

bulk_addr_store(w) ==
    /\ BulkStep(w, "addr_store", "len_load")
    /\ bulk_state' = [bulk_state EXCEPT
                        !.address = Add32(loc[w].tmp, FromNat(Len(loc[w].data)))]
    /\ UNCHANGED <<build, strict_bounds_check, keep_running, pci_config, bridge_reg, gfx_reg, vram, overflow,
                   ramtype_req, vramsize_req, corner_hits, main_running, oob,
                   gfx_io_data, loc, log, cfg_in, cfg_out,
                   bridge_io_data, ctlvars>>

\* bulk_state.length -= rv: the load, then the store
bulk_len_load(w) ==
    /\ BulkStep(w, "len_load", "len_store")
    /\ loc' = [loc EXCEPT ![w].tmp = bulk_state.length]
    /\ UNCHANGED <<build, strict_bounds_check, keep_running, pci_config, bridge_reg, gfx_reg, vram, bulk_state,
                   overflow, ramtype_req, vramsize_req, corner_hits,
                   main_running, oob, gfx_io_data, log, cfg_in, cfg_out,
                   bridge_io_data, ctlvars>>

bulk_len_store(w) ==
    /\ BulkStep(w, "len_store", "test")
    /\ bulk_state' = [bulk_state EXCEPT
                        !.length = Sub32(loc[w].tmp, FromNat(Len(loc[w].data)))]
    /\ UNCHANGED <<build, strict_bounds_check, keep_running, pci_config, bridge_reg, gfx_reg, vram, overflow,
                   ramtype_req, vramsize_req, corner_hits, main_running, oob,
                   gfx_io_data, loc, log, cfg_in, cfg_out,
                   bridge_io_data, ctlvars>>

\* if (bulk_state.configured && bulk_state.length == 0)
bulk_test(w) ==
    /\ pc[w] = "test"
    /\ pc' = [pc EXCEPT ![w] =
                IF bulk_state.configured /\ bulk_state.length = Zero32
                THEN "reset_cfg" ELSE "recv"]
    /\ UNCHANGED <<build, strict_bounds_check, keep_running, pci_config, bridge_reg, gfx_reg, vram, bulk_state,
                   overflow, ramtype_req, vramsize_req, corner_hits,
                   main_running, oob, gfx_io_data, loc, log, cfg_in, cfg_out,
                   bridge_io_data, ctlvars>>

\* the three stores of the reset
bulk_reset(w) ==
    /\ \/ /\ BulkStep(w, "reset_cfg", "reset_addr")
          /\ bulk_state' = [bulk_state EXCEPT !.configured = FALSE]
       \/ /\ BulkStep(w, "reset_addr", "reset_flags")
          /\ bulk_state' = [bulk_state EXCEPT !.address = Zero32]
       \/ /\ BulkStep(w, "reset_flags", "recv")
          /\ bulk_state' = [bulk_state EXCEPT !.flags = Zero32]
    /\ UNCHANGED <<build, strict_bounds_check, keep_running, pci_config, bridge_reg, gfx_reg, vram, overflow,
                   ramtype_req, vramsize_req, corner_hits, main_running, oob,
                   gfx_io_data, loc, log, cfg_in, cfg_out,
                   bridge_io_data, ctlvars>>

\* test_static_analyzer_warning clears the flag before its ioctl
test_clear_overflow ==
    /\ build = "overflow"
    /\ overflow' = FALSE
    /\ log' = Append(log,
            Snapshot(LogEntry("test", [bytes |-> <<>>], NoResult, FALSE),
                     bulk_state, vram, FALSE))
    /\ UNCHANGED <<build, strict_bounds_check, keep_running, pci_config, bridge_reg, gfx_reg, vram, bulk_state,
                   ramtype_req, vramsize_req, corner_hits, main_running, oob,
                   gfx_io_data, pc, loc, cfg_in, cfg_out,
                   bridge_io_data, ctlvars>>

----------------------------------------------------------------------------
(* the state after construction *)

\* the endpoints SET_CONFIGURATION enables, in the order it enables them
EpNames == <<"gfx_out", "gfx_in", "gfx_bulk_out", "gfx_lbulk_out",
             "bridge_out", "bridge_in">>

\* the handles before SET_CONFIGURATION and after it
NotEnabled == [e \in {EpNames[i] : i \in 1..Len(EpNames)} |-> -1]

\* a SET_CONFIGURATION that leaves the small bulk endpoint disabled
Enabled_nobulk == [e \in {EpNames[i] : i \in 1..Len(EpNames)} |->
                      IF e = "gfx_bulk_out" THEN -1
                      ELSE CHOOSE i \in 1..Len(EpNames) : EpNames[i] = e]

Enabled == [e \in {EpNames[i] : i \in 1..Len(EpNames)} |->
               CHOOSE i \in 1..Len(EpNames) : EpNames[i] = e]

\* the values an uninitialised receive buffer may hold
StaleData == {Zero32, FromNat(\h14), FromNat(\h3a)}

\* the static initialisers
InitConfigured(builds, stale, strict) ==
    /\ build \in builds
    /\ strict_bounds_check \in strict
    /\ keep_running = TRUE
    /\ pci_config = EmptyStore
    /\ bridge_reg = EmptyStore
    /\ gfx_reg = EmptyStore
    /\ vram = EmptyStore
    /\ bulk_state = IdleBulk
    /\ overflow = FALSE
    /\ ramtype_req = FALSE
    /\ vramsize_req = FALSE
    /\ corner_hits = 0
    /\ main_running = TRUE
    /\ oob = FALSE
    /\ gfx_io_data \in stale
    /\ bridge_io_data \in stale
    /\ device_init = FALSE
    /\ exited = FALSE
    /\ ep0_pc = "events"
    /\ log = <<>>
    /\ cfg_out = -1

\* the source initialises strict_bounds_check to false and never assigns it
InitStores(builds, stale) == InitConfigured(builds, stale, {FALSE})

\* the device after one SET_CONFIGURATION: endpoints enabled, one worker
\* thread per endpoint, each waiting for its first transfer
InitDevice(builds, stale) ==
    /\ InitStores(builds, stale)
    /\ ep_handle = Enabled
    /\ spawned = 1
    /\ pc = [w \in BulkWorkers |-> "recv"]
    /\ loc = [w \in BulkWorkers |-> [data |-> <<>>, tmp |-> Zero32]]

InitState(builds, stale) ==
    /\ InitDevice(builds, stale)
    /\ cfg_in = [size_bytes |-> Zero32, mode |-> 0, mib |-> 0]

----------------------------------------------------------------------------
(* SpecBulk: the bridge worker configures, one bulk worker streams *)

MaxBulkOps == 6

\* a 10-byte bridge write
BridgeWrite(addr, data) == Xfer(10, \h1f, FromNat(addr), data)

\* a 10-byte VRAM write with all four lanes enabled
VramWriteAll(addr, data) == Xfer(10, \h0f, addr, data)

VramEnd(n) == Add32(SISUSB_PCI_MEMBASE, FromNat(VRAM_SIZE - n))

BulkMenuBridge ==
    { BridgeWrite(\h194, VramEnd(3)),
      BridgeWrite(\h190, FromNat(3)),
      BridgeWrite(\h180, FromNat(1)) }

BulkMenuGfx == { VramWriteAll(VramEnd(4), U32(\hDDCC, \hBBAA)) }

BulkMenuChunks == { <<\h11>>, <<\h21, \h22>> }

InitBulk == InitState({"overflow"}, {Zero32})

BulkBridge ==
    Len(log) < MaxBulkOps /\ \E x \in BulkMenuBridge : ep_bridge_loop(x)

BulkGfx ==
    Len(log) < MaxBulkOps /\ \E x \in BulkMenuGfx : ep_gfx_loop(x)

BulkChunks ==
    Len(log) < MaxBulkOps /\ \E d \in BulkMenuChunks : ep_bulk_iteration("bulk", d)

NextBulk == BulkBridge \/ BulkGfx \/ BulkChunks

SpecBulk == InitBulk /\ [][NextBulk]_vars

\* the bytes of the chunks log[i..j], concatenated
RECURSIVE Streamed(_, _)
Streamed(i, j) ==
    IF i > j THEN <<>> ELSE Streamed(i, j - 1) \o log[j].xfer.bytes

IsBridgeWriteTo(e, regs) ==
    e.ep = "bridge" /\ e.xfer.len > 6 /\ e.xfer.addr \in regs

\* log[k] is a flags-commit write that directly follows the writes of an
\* address 0xD0000000 + X and a length N (either order), N > 0,
\* X + N <= VRAM_SIZE, and everything after it is chunks of one bulk worker
ConfiguredAt(k, a, l) ==
    /\ {a, l} = {k - 2, k - 1}
    /\ IsBridgeWriteTo(log[a], BULK_ADDR_REGS)
    /\ IsBridgeWriteTo(log[l], BULK_LEN_REGS)
    /\ IsBridgeWriteTo(log[k], BULK_FLAGS_REGS)
    /\ LET X == Sub32(log[a].xfer.data, SISUSB_PCI_MEMBASE)
           N == log[l].xfer.data
       IN  /\ N # Zero32
           /\ ~Gt32(X, FromNat(VRAM_SIZE))
           /\ ~Gt32(N, Sub32(FromNat(VRAM_SIZE), X))
    /\ \A j \in (k + 1)..Len(log) :
            log[j].ep \in BulkWorkers /\ log[j].ep = log[Len(log)].ep

\* C1: after the configuration {address = 0xD0000000 + X, length = N, commit}
\* and chunks of one bulk worker whose lengths sum to N, whatever the split,
\* VRAM[X, X+N) holds the streamed bytes, every other VRAM byte is as it was
\* at the commit, and BulkState is Idle again.
BulkReassemblyLaw ==
    \A k \in 3..Len(log) : \A a, l \in {k - 2, k - 1} :
        (ConfiguredAt(k, a, l)
         /\ Len(Streamed(k + 1, Len(log))) = Val(log[l].xfer.data))
        => LET X == Val(Sub32(log[a].xfer.data, SISUSB_PCI_MEMBASE))
               N == Val(log[l].xfer.data)
               bytes == Streamed(k + 1, Len(log))
               before == log[k].vram
           IN  /\ \A i \in 1..N : Load(vram, X + i - 1, 0) = bytes[i]
               /\ \A i \in (DOMAIN vram) \cup (DOMAIN before) :
                       (i < X \/ i >= X + N)
                       => Load(vram, i, 0) = Load(before, i, 0)
               /\ bulk_state = IdleBulk

\* a configured transfer of three bytes streamed in two chunks over a VRAM
\* that already held other bytes
BulkReassemblyWitness ==
    \E k \in 3..Len(log) : \E a, l \in {k - 2, k - 1} :
        /\ ConfiguredAt(k, a, l)
        /\ Len(log) = k + 2
        /\ Len(Streamed(k + 1, Len(log))) = Val(log[l].xfer.data)
        /\ log[k].vram # EmptyStore
        /\ \E i \in DOMAIN vram : i < Val(Sub32(log[a].xfer.data, SISUSB_PCI_MEMBASE))

----------------------------------------------------------------------------
(* SpecOvf: the overflow probe of the overflow-test build *)

MaxOvfOps == 5

OvfMenuBridge ==
    { BridgeWrite(\h194, OVERFLOW_ADDRESS),
      BridgeWrite(\h190, U32(\h00FF, \hFFFF)),
      BridgeWrite(\h180, FromNat(1)),
      BridgeWrite(\h194, VramEnd(3)),
      BridgeWrite(\h190, FromNat(16)) }

OvfMenuChunks == { <<\h11>> }

OvfBridge ==
    Len(log) < MaxOvfOps /\ \E x \in OvfMenuBridge : ep_bridge_loop(x)

OvfChunks ==
    Len(log) < MaxOvfOps /\ \E d \in OvfMenuChunks : ep_bulk_iteration("bulk", d)

OvfTestClear ==
    Len(log) < MaxOvfOps /\ test_clear_overflow

NextOvf == OvfBridge \/ OvfChunks \/ OvfTestClear

SpecOvf == InitBulk /\ [][NextOvf]_vars

\* log[k] is a commit that directly follows the writes of the sentinel
\* address 0xFFFFFFF0 and length 0xFFFFFF (either order), made while the
\* flag was false, and log[k + 1] is a data chunk
OverflowScenarioAt(k) ==
    /\ k >= 3 /\ k + 1 <= Len(log)
    /\ \E a, l \in {k - 2, k - 1} :
        /\ a # l
        /\ IsBridgeWriteTo(log[a], BULK_ADDR_REGS)
        /\ log[a].xfer.data = OVERFLOW_ADDRESS
        /\ IsBridgeWriteTo(log[l], BULK_LEN_REGS)
        /\ log[l].xfer.data = U32(\h00FF, \hFFFF)
    /\ IsBridgeWriteTo(log[k], BULK_FLAGS_REGS)
    /\ log[k + 1].ep \in BulkWorkers
    /\ (k = 3 \/ log[k - 3].overflow = FALSE)

\* C9: once the sentinel address and length have been written (either
\* order), committed, and one chunk has been received, the OverflowFlag is
\* true, and it stays true as long as the test sequence has not cleared it.
OverflowDefectObserved ==
    \A k \in 3..Len(log) :
        (OverflowScenarioAt(k)
         /\ \A j \in (k - 2)..Len(log) : log[j].ep # "test")
        => overflow = TRUE

\* the scenario, followed by a bridge write that moves the address away
OverflowDefectWitness ==
    /\ build = "overflow"
    /\ Len(log) = 5
    /\ OverflowScenarioAt(3)
    /\ log[5] = Snapshot(LogEntry("bridge", BridgeWrite(\h194, VramEnd(3)),
                                  Zero32, FALSE),
                         bulk_state, vram, TRUE)

----------------------------------------------------------------------------
(* SpecBridge: register reads and writes on the bridge endpoint *)

MaxBridgeOps == 3

BridgeRead(addr) == Xfer(6, \h1f, addr, Zero32)

\* word 4 (twice), the last word, the first two rejected addresses, and the
\* small-bulk address and length registers
BridgeMenuAddr ==
    { FromNat(\h10), FromNat(\h13), FromNat(\hFFC), FromNat(\h1000),
      U32(\hFFFF, \hFFFC), FromNat(\h194), FromNat(\h190) }

BridgeMenuData == { OVERFLOW_ADDRESS, U32(\h00FF, \hFFFF) }

BridgeMenu ==
    { Xfer(10, \h1f, a, d) : a \in BridgeMenuAddr, d \in BridgeMenuData }
    \cup { BridgeRead(a) : a \in BridgeMenuAddr }

BridgeOps ==
    Len(log) < MaxBridgeOps /\ \E x \in BridgeMenu : ep_bridge_loop(x)

NextBridge == BridgeOps

SpecBridge == InitBulk /\ [][NextBridge]_vars

IsBridgeRead(e) == e.ep = "bridge" /\ e.xfer.len = 6

IsBridgeWrite(e) == e.ep = "bridge" /\ e.xfer.len > 6

InBridgeRange(e) == e.xfer.addr.hi = 0 /\ e.xfer.addr.lo < 4 * PCI_BRIDGE_REG_SIZE

SameBridgeWord(e, f) ==
    e.xfer.addr.hi = f.xfer.addr.hi
    /\ e.xfer.addr.lo \div 4 = f.xfer.addr.lo \div 4

\* C4: a bridge write of V at an address whose word index is below 1024,
\* followed by a bridge read of the same word with no bridge write to that
\* word in between, makes the read return V.
BridgeRoundTrip ==
    \A i, j \in 1..Len(log) :
        (/\ i < j
         /\ IsBridgeWrite(log[i]) /\ InBridgeRange(log[i])
         /\ IsBridgeRead(log[j]) /\ SameBridgeWord(log[i], log[j])
         /\ \A m \in (i + 1)..(j - 1) :
                ~(IsBridgeWrite(log[m]) /\ SameBridgeWord(log[i], log[m])))
        => (log[j].reply /\ log[j].res = log[i].xfer.data)

\* a write to a bulk configuration register, another access, then the read
BridgeRoundTripWitness ==
    /\ Len(log) = 3
    /\ IsBridgeWrite(log[1]) /\ log[1].xfer.addr = FromNat(\h194)
    /\ IsBridgeWrite(log[2]) /\ ~SameBridgeWord(log[1], log[2])
    /\ IsBridgeRead(log[3]) /\ log[3].xfer.addr = FromNat(\h194)
    /\ log[3].res = OVERFLOW_ADDRESS

\* C5: a bridge read or write whose word index is 1024 or more returns 0 and
\* leaves the bridge registers, BulkState and the OverflowFlag as they were.
BridgeOutOfRangeRejected ==
    [][\A e \in {log'[Len(log')]} :
         (Len(log') = Len(log) + 1 /\ e.ep = "bridge" /\ e.xfer.len >= 6
          /\ ~InBridgeRange(e))
         => (/\ e.res = Zero32
             /\ bridge_reg' = bridge_reg
             /\ bulk_state' = bulk_state
             /\ overflow' = overflow)]_vars

\* a rejected write arrives when registers, BulkState and the flag are set
BridgeOutOfRangeWitness ==
    /\ Len(log) = 3
    /\ overflow /\ bulk_state # IdleBulk /\ bridge_reg # EmptyStore
    /\ IsBridgeWrite(log[3]) /\ ~InBridgeRange(log[3])

----------------------------------------------------------------------------
(* SpecGfx: PCI-config and VRAM accesses on the GFX endpoint *)

MaxGfxOps == 3

PciWrite(addr, data) == Xfer(10, PCI_HEADER, addr, data)
PciRead(addr) == Xfer(6, PCI_HEADER, addr, Zero32)

\* VRAM accesses carry the lane mask in the low nibble of the header
MemWrite(addr, mask, data) == Xfer(10, mask, addr, data)
MemRead(addr, mask) == Xfer(6, mask, addr, Zero32)

\* I/O accesses have type 1 in bits 6-7 and select the lane by the low nibble
IoWrite(addr, nibble, data) == Xfer(10, 64 + nibble, addr, data)
IoRead(addr, nibble) == Xfer(6, 64 + nibble, addr, Zero32)

\* index 0x10 under two addresses, and index 127 under two addresses
GfxMenuPci ==
    { PciWrite(FromNat(\h10), U32(\hDEAD, \hBEEF)),
      PciWrite(FromNat(\h90), U32(\h0BAD, \hF00D)),
      PciWrite(U32(\hFFFF, \hFFFF), U32(\h1234, \h5678)),
      PciRead(FromNat(\h10)), PciRead(FromNat(\h90)),
      PciRead(U32(\hFFFF, \hFF7F)) }

\* the last two bytes of VRAM (lanes 2 and 3 wrap to bytes 0 and 1), the
\* same bytes reached from below the base, and an address past the end
GfxMenuMemAddr ==
    { <<VramEnd(2), U32(\h4433, \h2211)>>,
      <<U32(\hCFFF, \hFFFE), U32(\h8877, \h6655)>>,
      <<U32(\hD080, \h0100), U32(\h0D0C, \h0B0A)>> }

GfxMenuMask == { 15, 5 }

GfxMenuMem ==
    { MemWrite(a[1], m, a[2]) : a \in GfxMenuMemAddr, m \in GfxMenuMask }
    \cup { MemRead(a[1], m) : a \in GfxMenuMemAddr, m \in GfxMenuMask }

GfxMenuIo == { IoWrite(FromNat(\hd044), 2, U32(0, \h7700)) }

InitGfx == InitState({"overflow"}, {Zero32})

GfxPciOps ==
    Len(log) < MaxGfxOps /\ \E x \in GfxMenuPci : ep_gfx_loop(x)

GfxMemOps ==
    Len(log) < MaxGfxOps /\ \E x \in GfxMenuMem : ep_gfx_loop(x)

GfxIoOps ==
    Len(log) < MaxGfxOps /\ \E x \in GfxMenuIo : ep_gfx_loop(x)

NextGfx == GfxPciOps \/ GfxMemOps \/ GfxIoOps

SpecGfx == InitGfx /\ [][NextGfx]_vars

\* how a handled GFX transfer is addressed, read off its header
IsPci(e) == e.ep = "gfx" /\ e.xfer.len >= 6 /\ e.xfer.hdr = PCI_HEADER

IsMem(e) ==
    e.ep = "gfx" /\ e.xfer.len >= 6 /\ e.xfer.hdr # PCI_HEADER
    /\ (e.xfer.hdr \div 64) % 4 = 0

IsIo(e) ==
    e.ep = "gfx" /\ e.xfer.len >= 6 /\ e.xfer.hdr # PCI_HEADER
    /\ (e.xfer.hdr \div 64) % 4 = 1

IsRead(e) == e.xfer.len = 6

PciIndex(e) == e.xfer.addr.lo % 128

\* C3: a PCI-config write of V at A followed by a PCI-config read at an
\* address with the same low seven bits, with no PCI-config write to that
\* index in between, returns V; no address leaves the 128 entries or is
\* rejected.
PciRoundTrip ==
    /\ \A i, j \in 1..Len(log) :
        (/\ i < j
         /\ IsPci(log[i]) /\ ~IsRead(log[i])
         /\ IsPci(log[j]) /\ IsRead(log[j])
         /\ PciIndex(log[i]) = PciIndex(log[j])
         /\ \A m \in (i + 1)..(j - 1) :
                ~(IsPci(log[m]) /\ ~IsRead(log[m])
                  /\ PciIndex(log[m]) = PciIndex(log[i])))
        => (log[j].reply /\ log[j].res = log[i].xfer.data)
    /\ DOMAIN pci_config \subseteq 0..(PCI_CONFIG_SIZE - 1)
    /\ \A j \in 1..Len(log) : (IsPci(log[j]) /\ IsRead(log[j])) => log[j].reply

\* written at 0x90, another PCI write elsewhere, read back at 0x10
PciRoundTripWitness ==
    /\ Len(log) = 3
    /\ log[1].xfer = PciWrite(FromNat(\h90), U32(\h0BAD, \hF00D))
    /\ IsPci(log[2]) /\ ~IsRead(log[2]) /\ PciIndex(log[2]) = 127
    /\ log[3].xfer = PciRead(FromNat(\h10))
    /\ log[3].res = U32(\h0BAD, \hF00D)

\* the VRAM byte a lane of a lenient access names:
\* (address - 0xD0000000 + lane) mod VRAM_SIZE
LenientIndex(addr, lane) ==
    LET a == Add32(Sub32(addr, SISUSB_PCI_MEMBASE), FromNat(lane))
    IN  (a.hi % 128) * W16 + a.lo

Lanes(e) == { i \in 0..3 : Bit(e.xfer.hdr % 16, i) = 1 }

BytesOf(e) == { LenientIndex(e.xfer.addr, i) : i \in Lanes(e) }

\* the word V with the lanes outside the mask cleared
Masked(V, lanes) ==
    LET b(i) == IF i \in lanes THEN Byte(V, i) ELSE 0
    IN  FromBytes(b(0), b(1), b(2), b(3))

\* C6: in lenient mode a VRAM write (A, V, M) followed by a VRAM read (A, M),
\* with no write to the same bytes in between, returns V with the lanes
\* outside M cleared; no address reaches outside VRAM indices [0, VRAM_SIZE).
VramRoundTrip ==
    /\ \A i, j \in 1..Len(log) :
        (/\ i < j
         /\ IsMem(log[i]) /\ ~IsRead(log[i])
         /\ IsMem(log[j]) /\ IsRead(log[j])
         /\ log[j].xfer.addr = log[i].xfer.addr
         /\ Lanes(log[j]) = Lanes(log[i])
         /\ \A m \in (i + 1)..(j - 1) :
                ~(IsMem(log[m]) /\ ~IsRead(log[m])
                  /\ BytesOf(log[m]) \cap BytesOf(log[i]) # {}))
        => (log[j].reply
            /\ log[j].res = Masked(log[i].xfer.data, Lanes(log[i])))
    /\ DOMAIN vram \subseteq 0..(VRAM_SIZE - 1)

\* lanes 0 and 2 written across the end of VRAM, a write to other bytes,
\* and the read back
VramRoundTripWitness ==
    /\ Len(log) = 3
    /\ log[1].xfer = MemWrite(VramEnd(2), 5, U32(\h4433, \h2211))
    /\ log[2].xfer = MemWrite(U32(\hD080, \h0100), 15, U32(\h0D0C, \h0B0A))
    /\ log[3].xfer = MemRead(VramEnd(2), 5)
    /\ log[3].res = U32(\h0033, \h0011)

----------------------------------------------------------------------------
(* SpecIo: I/O-register accesses and the one-shot queries, both builds *)

MaxIoOps == 3

\* port 0x44 is lane 0 of the word at 0xd044, port 0x45 its lane 1; 0xd080
\* lies past the 128 registers
IoMenu ==
    { IoWrite(FromNat(\hd044), 1, FromNat(\h3a)),
      IoWrite(FromNat(\hd044), 1, FromNat(\h14)),
      IoWrite(FromNat(\hd044), 2, U32(0, \h7700)),
      IoRead(FromNat(\hd044), 1),
      IoRead(FromNat(\hd044), 2),
      IoRead(FromNat(\hd080), 1) }

IoMenuPci == { PciWrite(FromNat(\h10), U32(\hDEAD, \hBEEF)) }

InitIo == InitState({"overflow", "ioctl"}, StaleData)

IoOps == Len(log) < MaxIoOps /\ \E x \in IoMenu : ep_gfx_loop(x)

IoPciOps == Len(log) < MaxIoOps /\ \E x \in IoMenuPci : ep_gfx_loop(x)

NextIo == IoOps \/ IoPciOps

SpecIo == InitIo /\ [][NextIo]_vars

\* the port an I/O access names, and its byte lane
IoPort(e) == Add32(ClearIoBase(e.xfer.addr), FromNat(LaneOffset(e.xfer.hdr % 16)))

IoLane(e) == IoPort(e).lo % 4

IsIoRegister(e) == IsIo(e) /\ Lt32(IoPort(e), FromNat(GFX_REG_SIZE))

\* an I/O write that stores a trigger byte at port 0x44
IsArming(e) ==
    /\ IsIoRegister(e) /\ ~IsRead(e)
    /\ IoPort(e) = FromNat(\h44)
    /\ Byte(e.xfer.data, IoLane(e)) \in {\h3a, \h14}

\* the byte a query synthesizes
Synthesized(e) ==
    IF Byte(e.xfer.data, IoLane(e)) = \h3a
    THEN RAM_TYPE
    ELSE get_vram_config_reg(AdvertisedSize, SISUSB_RAM_CONFIG)

\* the byte last written to the port of log[j] before log[j], 0 if none
RECURSIVE StoredByte(_, _)
StoredByte(port, n) ==
    IF n = 0 THEN 0
    ELSE IF IsIoRegister(log[n]) /\ ~IsRead(log[n]) /\ IoPort(log[n]) = port
         THEN Byte(log[n].xfer.data, IoLane(log[n]))
         ELSE StoredByte(port, n - 1)

\* C7: after an arming write, the next I/O-register read returns the
\* synthesized byte in its lane, and the read after it, with no arming write
\* in between, returns the stored value of the register it reads.
OneShotQueryLaw ==
    \A i \in 1..Len(log) :
        (/\ i + 2 <= Len(log)
         /\ IsArming(log[i])
         /\ IsIoRegister(log[i + 1]) /\ IsRead(log[i + 1])
         /\ IsIoRegister(log[i + 2]) /\ IsRead(log[i + 2]))
        => /\ log[i + 1].res
                = Shl8(FromNat(Synthesized(log[i])), IoLane(log[i + 1]))
           /\ log[i + 2].res
                = Shl8(FromNat(StoredByte(IoPort(log[i + 2]), i + 1)),
                       IoLane(log[i + 2]))

\* C8: on a fresh device, the trigger 0x14 written to port 0x44 and port 0x44
\* read twice: the first read returns the VRAM-size byte, the second read
\* returns 0.
FreshTriggerScenario ==
    (/\ Len(log) = 3
     /\ log[1].xfer = IoWrite(FromNat(\hd044), 1, FromNat(\h14))
     /\ log[2].xfer = IoRead(FromNat(\hd044), 1)
     /\ log[3].xfer = IoRead(FromNat(\hd044), 1))
    => /\ log[2].res = FromNat(get_vram_config_reg(AdvertisedSize, SISUSB_RAM_CONFIG))
       /\ log[3].res = Zero32

----------------------------------------------------------------------------
(* SpecVramCfg: get_vram_config_reg over its argument space *)

\* the largest whole number of MiB a uint32_t size holds
MaxMiB == 2^12 - 1

\* a size of m MiB exactly (r = 0) or m MiB and all but one byte of the next
CfgSize(m, r) == U32(m * 16 + r * 15, r * (W16 - 1))

CfgModes == { SISUSB_RAM_1CH_1R, SISUSB_RAM_1CH_2R, SISUSB_RAM_ASYM, SISUSB_RAM_2CH }

\* cfg_in.mib records the whole MiB the size was built from
InitVramCfg ==
    /\ InitDevice({"overflow"}, {Zero32})
    /\ \E m \in 0..MaxMiB, r \in {0, 1}, mode \in CfgModes :
           cfg_in = [size_bytes |-> CfgSize(m, r), mode |-> mode, mib |-> m]

CallVramCfg ==
    /\ cfg_out = -1
    /\ cfg_out' = get_vram_config_reg(cfg_in.size_bytes, cfg_in.mode)
    /\ UNCHANGED <<build, strict_bounds_check, keep_running, pci_config, bridge_reg, gfx_reg, vram, bulk_state,
                   overflow, ramtype_req, vramsize_req, corner_hits,
                   main_running, oob, gfx_io_data, pc, loc, log, cfg_in,
                   bridge_io_data, ctlvars>>

NextVramCfg == CallVramCfg

SpecVramCfg == InitVramCfg /\ [][NextVramCfg]_vars

FloorLog2(b) == CHOOSE p \in 0..12 : 2^p <= b /\ b < 2^(p + 1)

CfgBase(m, mode) ==
    CASE mode = 2 -> (2 * m) \div 3
      [] mode \in {1, 3} -> m \div 2
      [] OTHER -> m

CfgExpected(m, mode) ==
    LET b == CfgBase(m, mode)
        p == IF b <= 1 THEN 0 ELSE FloorLog2(b)
    IN  IF m = 0 THEN 0 ELSE (p * 16 + mode * 4) % 256

\* C10: for every size of 1..4095 MiB and mode 0..3 get_vram_config_reg
\* returns ((floor(log2(b)) << 4) | (mode << 2)) mod 256 with b the size in MiB
\* divided as the mode says, 0 below 1 MiB, and 0x28 for 6 MiB in mode 2.
VramConfigRegFormula ==
    cfg_out # -1 =>
        /\ cfg_out = CfgExpected(cfg_in.mib, cfg_in.mode)
        /\ (cfg_in.size_bytes = U32(6 * 16, 0) /\ cfg_in.mode = 2) => cfg_out = \h28

VramConfigRegWitness ==
    /\ cfg_in.size_bytes = U32(6 * 16, 0) /\ cfg_in.mode = 2
    /\ cfg_out = \h28

----------------------------------------------------------------------------
(* SpecRace: both bulk workers stream while the bridge worker configures *)

\* chunks each bulk worker receives
MaxRaceChunks == 1

\* the byte count the configuration announces: the longest chunks of both workers
RaceLength == 4 * MaxRaceChunks

\* the driver's configuration, in the order the bridge endpoint delivers it
RaceCfgSeq ==
    << BridgeWrite(\h194, SISUSB_PCI_MEMBASE),
       BridgeWrite(\h190, FromNat(RaceLength)),
       BridgeWrite(\h180, FromNat(1)) >>

RaceMenuChunks ==
    [bulk |-> { <<\h11>>, <<\h21, \h22>> }, lbulk |-> { <<\h31>>, <<\h41, \h42>> }]

Received(e) == Cardinality({i \in 1..Len(log) : log[i].ep = e})

InitRace == InitState({"overflow"}, {Zero32})

RaceBridge ==
    /\ Received("bridge") < Len(RaceCfgSeq)
    /\ ep_bridge_loop(RaceCfgSeq[Received("bridge") + 1])

RaceRecv ==
    \E w \in BulkWorkers :
        /\ Received(w) < MaxRaceChunks
        /\ \E d \in RaceMenuChunks[w] : bulk_recv(w, d)

RaceWrite == \E w \in BulkWorkers : bulk_write(w)

RaceAddrLoad == \E w \in BulkWorkers : bulk_addr_load(w)

RaceAddrStore == \E w \in BulkWorkers : bulk_addr_store(w)

RaceLenLoad == \E w \in BulkWorkers : bulk_len_load(w)

RaceLenStore == \E w \in BulkWorkers : bulk_len_store(w)

RaceTest == \E w \in BulkWorkers : bulk_test(w)

RaceReset == \E w \in BulkWorkers : bulk_reset(w)

NextRace ==
    \/ RaceBridge
    \/ RaceRecv
    \/ RaceWrite
    \/ RaceAddrLoad
    \/ RaceAddrStore
    \/ RaceLenLoad
    \/ RaceLenStore
    \/ RaceTest
    \/ RaceReset

SpecRace == InitRace /\ [][NextRace]_vars

\* the bytes of vram from offset base on are exactly data
VramHolds(base, data) ==
    \A j \in 1..Len(data) : Load(vram, base + j - 1, 0) = data[j]

\* C2: with the configuration committed, two chunks received by the two bulk
\* workers, together shorter than the announced length, leave the cursor
\* advanced and the remaining length decreased by both lengths, and the
\* chunks in disjoint consecutive ranges, under every interleaving.
ChunkApplyAtomic ==
    (/\ Len(log) = 5
     /\ \A i \in 1..3 : log[i].ep = "bridge"
     /\ {log[4].ep, log[5].ep} = BulkWorkers
     /\ \A w \in BulkWorkers : pc[w] = "recv"
     /\ Len(log[4].xfer.bytes) + Len(log[5].xfer.bytes) < RaceLength)
    => LET d1 == log[4].xfer.bytes
           d2 == log[5].xfer.bytes
           total == Len(d1) + Len(d2)
       IN  /\ bulk_state.address = Add32(SISUSB_PCI_MEMBASE, FromNat(total))
           /\ bulk_state.length = FromNat(RaceLength - total)
           /\ \/ VramHolds(0, d1) /\ VramHolds(Len(d1), d2)
              \/ VramHolds(0, d2) /\ VramHolds(Len(d2), d1)

----------------------------------------------------------------------------
(* SpecLen: register transfers of every kind of length *)

MaxLenOps == 3

\* too short (0, 5), a read (6), a write reaching part of the data field (7),
\* a full packet (10), a packet with trailing bytes (12)
LenMenu == {0, 5, 6, 7, 10, 12}

\* the small-bulk address register, PCI-config word 0x10
LenMenuBridge == { Xfer(n, \h1f, FromNat(\h194), U32(\hDDCC, \hBBAA)) : n \in LenMenu }

LenMenuGfx == { Xfer(n, PCI_HEADER, FromNat(\h10), U32(\h4433, \h2211)) : n \in LenMenu }

InitLen == InitState({"overflow"}, {Zero32, U32(\h7777, \h7777)})

LenBridge == Len(log) < MaxLenOps /\ \E x \in LenMenuBridge : ep_bridge_loop(x)

LenGfx == Len(log) < MaxLenOps /\ \E x \in LenMenuGfx : ep_gfx_loop(x)

NextLen == LenBridge \/ LenGfx

SpecLen == InitLen /\ [][NextLen]_vars

\* the step handles one more register transfer
RegisterStep ==
    /\ Len(log') = Len(log) + 1
    /\ log'[Len(log')].ep \in {"bridge", "gfx"}

\* the word a register transfer addresses, in the stores br and pci
AddressedWord(e, br, pci) ==
    IF e.ep = "bridge"
    THEN Load(br, Val(e.xfer.addr) \div 4, Zero32)
    ELSE Load(pci, Val(e.xfer.addr) % 128, Zero32)

\* C11: a transfer of exactly 6 bytes is a read (one reply with the addressed
\* word, nothing stored), a transfer of any other length >= 6 is a write
\* (the bytes it carries are stored, no reply).
LengthClassification ==
    [][RegisterStep =>
        LET e == log'[Len(log')]
            n == e.xfer.len
        IN  /\ n = 6 =>
                /\ e.reply
                /\ e.res = AddressedWord(e, bridge_reg, pci_config)
                /\ UNCHANGED <<bridge_reg, pci_config, bulk_state>>
            /\ n > 6 =>
                /\ ~e.reply
                /\ \A k \in 0..3 :
                       k < n - 6 =>
                           Byte(AddressedWord(e, bridge_reg', pci_config'), k)
                               = Byte(e.xfer.data, k)
                /\ e.ep = "bridge" =>
                       bulk_state'.address
                           = AddressedWord(e, bridge_reg', pci_config')
            /\ n < 6 => ~e.reply]_vars

\* a 6-byte read answered after a 7-byte write, and a 12-byte write
LengthClassificationWitness ==
    \E i, j, k \in 1..Len(log) :
        /\ i < j
        /\ log[i].ep = log[j].ep /\ log[i].xfer.len = 7 /\ ~log[i].reply
        /\ log[j].xfer.len = 6 /\ log[j].reply
        /\ Byte(log[j].res, 0) = Byte(log[i].xfer.data, 0)
        /\ log[k].xfer.len = 12 /\ ~log[k].reply

\* C12: a transfer of fewer than 6 bytes changes no store, no BulkState
\* field and no one-shot flag, and is not answered.
ShortTransferDropped ==
    [][(RegisterStep /\ log'[Len(log')].xfer.len < 6) =>
        /\ UNCHANGED <<pci_config, bridge_reg, gfx_reg, vram, bulk_state,
                       ramtype_req, vramsize_req, overflow>>
        /\ ~log'[Len(log')].reply
        /\ log'[Len(log')].res = NoResult]_vars

\* a short transfer between a write and the read of what was written: the
\* worker has gone on to the next transfer and the stored word is intact
ShortTransferWitness ==
    /\ Len(log) = 3
    /\ \A i \in 1..3 : log[i].ep = "bridge"
    /\ log[1].xfer.len = 10 /\ log[2].xfer.len = 5 /\ log[3].xfer.len = 6
    /\ log[3].reply /\ log[3].res = log[1].xfer.data

----------------------------------------------------------------------------
(* the control loop: ep0_loop and ep0_request *)

\* how often SET_CONFIGURATION is handled
MaxConfigs == 2

\* the bulk worker thread the g-th SET_CONFIGURATION creates for endpoint e
Thread(e, g) == IF g = 1 THEN e ELSE e \o "#" \o ToString(g)

BulkThreads == { Thread(e, g) : e \in BulkWorkers, g \in 1..MaxConfigs }

\* the four threads one SET_CONFIGURATION creates
Workers == {"bridge", "gfx"} \cup BulkWorkers

GfxThreads == { Thread("gfx", g) : g \in 1..MaxConfigs }

\* the endpoint a bulk worker thread receives on
EndpointOf(w) == CHOOSE e \in BulkWorkers : \E g \in 1..MaxConfigs : Thread(e, g) = w

ControlEvent(bRequestType, bRequest, wValue, wLength) ==
    [type |-> "CONTROL", bRequestType |-> bRequestType, bRequest |-> bRequest,
     wValue |-> wValue, wLength |-> wLength]

OtherEvent(type) ==
    [type |-> type, bRequestType |-> 0, bRequest |-> 0, wValue |-> 0, wLength |-> 0]

\* sizeof(usb_device)
DEVICE_DESC_LENGTH == \h12

\* build_config: configuration, interface and six endpoint descriptors
CONFIG_TOTAL_LENGTH == 9 + 9 + 6 * 7

\* what ep0_request decides: reply or stall, the reply prepared, and whether
\* it set device_init or enabled the endpoints and created the workers
Request(reply, length, init, configure) ==
    [reply |-> reply, length |-> length, device_init |-> init,
     configure |-> configure]

ep0_request(ev) ==
    IF (ev.bRequestType \div 32) % 4 # 0 THEN Request(FALSE, 0, FALSE, FALSE)
    ELSE IF ev.bRequest = \h06
         THEN CASE ev.wValue \div 256 = 1 ->
                       Request(TRUE, DEVICE_DESC_LENGTH, FALSE, FALSE)
                [] ev.wValue \div 256 = 2 ->
                       Request(TRUE, CONFIG_TOTAL_LENGTH, FALSE, FALSE)
                [] ev.wValue \div 256 = 3 ->
                       Request(TRUE, 4, ev.wValue = \h305, FALSE)
                [] OTHER -> Request(FALSE, 0, FALSE, FALSE)
         ELSE IF ev.bRequest = \h09
              THEN Request(TRUE, 0, FALSE, TRUE)
              ELSE Request(FALSE, 0, FALSE, FALSE)

\* a control loop that hands over the prepared length as it is
Ep0Length_reply(ev, r) == r.length

\* the length handed to usb_raw_ep0_write / usb_raw_ep0_read
Ep0Length(ev, r) == IF ev.wLength < r.length THEN ev.wLength ELSE r.length

\* one iteration of the event loop of ep0_loop: CONNECT and every event that
\* is not a control request change nothing
ep0_event(ev) ==
    LET r == IF ev.type = "CONTROL" THEN ep0_request(ev)
             ELSE Request(FALSE, 0, FALSE, FALSE)
        g == spawned + 1
    IN  /\ ~exited
        /\ ep0_pc = "events"
        /\ ~device_init
        /\ device_init' = r.device_init
        /\ ep_handle' = IF r.configure
                        THEN [e \in DOMAIN ep_handle |->
                                 IF ep_handle[e] = -1 THEN Enabled[e]
                                 ELSE ep_handle[e]]
                        ELSE ep_handle
        /\ spawned' = IF r.configure THEN g ELSE spawned
        /\ pc' = IF r.configure
                 THEN [w \in DOMAIN pc |->
                          IF w \in {Thread(e, g) : e \in Workers}
                          THEN "recv" ELSE pc[w]]
                 ELSE pc
        /\ log' = Append(log,
                Snapshot(LogEntry("ep0", [event |-> ev],
                                  IF r.reply THEN FromNat(Ep0Length(ev, r))
                                  ELSE NoResult,
                                  r.reply),
                         bulk_state, vram, overflow))
        /\ ep0_pc' = ep0_pc
        /\ exited' = exited
        /\ UNCHANGED <<build, strict_bounds_check, keep_running, pci_config, bridge_reg, gfx_reg, vram,
                       bulk_state, overflow, ramtype_req, vramsize_req,
                       corner_hits, main_running, oob, gfx_io_data,
                       bridge_io_data, loc, cfg_in, cfg_out>>

\* while (keep_running && !device_init) ends
ep0_leave ==
    /\ ~exited
    /\ ep0_pc = "events"
    /\ device_init
    /\ ep0_pc' = "wait"
    /\ UNCHANGED <<build, strict_bounds_check, keep_running, pci_config, bridge_reg, gfx_reg, vram, bulk_state,
                   overflow, ramtype_req, vramsize_req, corner_hits,
                   main_running, oob, gfx_io_data, bridge_io_data, pc, loc,
                   log, cfg_in, cfg_out, ep_handle, spawned, device_init,
                   exited>>

\* the loop after the event loop: it ends when main_running is false and, in
\* the overflow-test build, also when overflow is false; the test routine
\* is called next
ep0_wait ==
    /\ ~exited
    /\ ep0_pc = "wait"
    /\ IF build = "overflow" THEN ~main_running \/ overflow = FALSE
       ELSE ~main_running
    /\ ep0_pc' = "test"
    /\ UNCHANGED <<build, strict_bounds_check, keep_running, pci_config, bridge_reg, gfx_reg, vram, bulk_state,
                   overflow, ramtype_req, vramsize_req, corner_hits,
                   main_running, oob, gfx_io_data, bridge_io_data, pc, loc,
                   log, cfg_in, cfg_out, ep_handle, spawned, device_init,
                   exited>>

\* usb_raw_ep_read fails in the bulk worker w: perror and exit(EXIT_FAILURE)
bulk_recv_fail(w) ==
    /\ ~exited
    /\ pc[w] = "recv"
    /\ exited' = TRUE
    /\ log' = Append(log,
            Snapshot(LogEntry(w, [failed |-> TRUE], NoResult, FALSE),
                     bulk_state, vram, overflow))
    /\ UNCHANGED <<build, strict_bounds_check, keep_running, pci_config, bridge_reg, gfx_reg, vram, bulk_state,
                   overflow, ramtype_req, vramsize_req, corner_hits,
                   main_running, oob, gfx_io_data, bridge_io_data, pc, loc,
                   cfg_in, cfg_out, ep_handle, spawned, device_init, ep0_pc>>

----------------------------------------------------------------------------
(* SpecCtrl: control events, the workers they create, chunks on one endpoint *)

MaxCtrlEvents == 3

\* CONNECT, RESET, SET_CONFIGURATION, GET_DESCRIPTOR for the device
\* descriptor and for string 5 of language 3 (the last request of the driver)
CtrlMenuEvents ==
    { OtherEvent("CONNECT"),
      OtherEvent("RESET"),
      ControlEvent(\h00, \h09, 1, 0),
      ControlEvent(\h80, \h06, \h100, 64),
      ControlEvent(\h80, \h06, \h305, 255) }

\* the chunks the host sends on the small bulk endpoint, in this order
CtrlChunkSeq == << <<\h11>>, <<\h21>> >>

InitCtrl ==
    /\ InitStores({"overflow"}, {Zero32})
    /\ ep_handle = NotEnabled
    /\ spawned = 0
    /\ pc = [w \in BulkThreads |-> "off"]
    /\ loc = [w \in BulkThreads |-> [data |-> <<>>, tmp |-> Zero32]]
    /\ cfg_in = [size_bytes |-> Zero32, mode |-> 0, mib |-> 0]

CtrlEvent ==
    /\ Received("ep0") < MaxCtrlEvents
    /\ \E ev \in CtrlMenuEvents :
           /\ (ev.type = "CONTROL" /\ ep0_request(ev).configure)
                  => spawned < MaxConfigs
           /\ ep0_event(ev)

CtrlLeave == ep0_leave

\* the bridge worker sets the cursor to the start of VRAM
CtrlBridge ==
    /\ ~exited
    /\ spawned >= 1
    /\ Received("bridge") = 0
    /\ ep_bridge_loop(BridgeWrite(\h194, SISUSB_PCI_MEMBASE))

\* a thread waiting on the small bulk endpoint takes the next chunk
CtrlRecv ==
    /\ ~exited
    /\ \E w \in BulkThreads :
           LET n == Cardinality({i \in 1..Len(log) :
                                    /\ log[i].ep \in BulkThreads
                                    /\ "bytes" \in DOMAIN log[i].xfer})
           IN  /\ EndpointOf(w) = "bulk"
               /\ n < Len(CtrlChunkSeq)
               /\ bulk_recv(w, CtrlChunkSeq[n + 1])

\* the receive of a thread on the large bulk endpoint fails, before any
\* chunk has arrived
CtrlRecvFail ==
    /\ \A i \in 1..Len(log) : ~(log[i].ep \in BulkThreads)
    /\ \E w \in BulkThreads : EndpointOf(w) = "lbulk" /\ bulk_recv_fail(w)

CtrlWrite == ~exited /\ \E w \in BulkThreads : bulk_write(w)

CtrlAddrLoad == ~exited /\ \E w \in BulkThreads : bulk_addr_load(w)

CtrlAddrStore == ~exited /\ \E w \in BulkThreads : bulk_addr_store(w)

CtrlLenLoad == ~exited /\ \E w \in BulkThreads : bulk_len_load(w)

CtrlLenStore == ~exited /\ \E w \in BulkThreads : bulk_len_store(w)

CtrlTest == ~exited /\ \E w \in BulkThreads : bulk_test(w)

NextCtrl ==
    \/ CtrlEvent
    \/ CtrlLeave
    \/ CtrlBridge
    \/ CtrlRecv
    \/ CtrlRecvFail
    \/ CtrlWrite
    \/ CtrlAddrLoad
    \/ CtrlAddrStore
    \/ CtrlLenLoad
    \/ CtrlLenStore
    \/ CtrlTest

SpecCtrl == InitCtrl /\ [][NextCtrl]_vars

IsChunk(e) == e.ep \in BulkThreads /\ "bytes" \in DOMAIN e.xfer

\* the latest transfer the thread w has received
LastOf(w) == CHOOSE i \in 1..Len(log) :
                 /\ log[i].ep = w
                 /\ \A j \in (i + 1)..Len(log) : log[j].ep # w

\* C13: of two chunks received on one bulk endpoint, the later one has no
\* effect (VRAM write, BulkState update) while the earlier one is still
\* being processed.
PerEndpointOrder ==
    \A i, j \in 1..Len(log) :
        (/\ i < j
         /\ IsChunk(log[i]) /\ IsChunk(log[j])
         /\ EndpointOf(log[i].ep) = EndpointOf(log[j].ep)
         /\ LastOf(log[i].ep) = i /\ pc[log[i].ep] # "recv")
        => (LastOf(log[j].ep) = j /\ pc[log[j].ep] = "write")

IsEvent(e, type) == e.ep = "ep0" /\ e.xfer.event.type = type

IsSetConfiguration(e) ==
    /\ IsEvent(e, "CONTROL")
    /\ e.xfer.event.bRequest = \h09
    /\ (e.xfer.event.bRequestType \div 32) % 4 = 0

\* C17: once a RESET event that follows a SET_CONFIGURATION has been
\* handled, no worker thread is left and the bulk endpoints are disabled.
ResetStopsWorkers ==
    (/\ Len(log) >= 2
     /\ IsEvent(log[Len(log)], "RESET")
     /\ \E i \in 1..(Len(log) - 1) : IsSetConfiguration(log[i]))
    => /\ \A w \in BulkThreads : pc[w] = "off"
       /\ \A e \in {"gfx_bulk_out", "gfx_lbulk_out"} : ep_handle[e] = -1

\* C18: after the receive of one bulk worker has failed, the process is
\* still running: the other workers and the control loop go on.
TransportFailureContained ==
    (\E i \in 1..Len(log) :
        log[i].ep \in BulkThreads /\ "failed" \in DOMAIN log[i].xfer)
    => ~exited

\* ---------------------------------------------------------------------
\* C14: BulkState invariant.  In every state in which no worker is in the
\* middle of an operation, configured = TRUE implies that a flags-commit
\* write has been processed and that the remaining length has not been
\* zero since that write; so configured = TRUE with length = 0 is never
\* reached.  SpecBulk runs every worker iteration in one step, so each of
\* its states is such a state.
IsCommit(e) == IsBridgeWriteTo(e, BULK_FLAGS_REGS)

ConfiguredOnlyWhileLengthRemains ==
    bulk_state.configured
    => /\ bulk_state.length # Zero32
       /\ \E k \in 1..Len(log) :
            /\ IsCommit(log[k])
            /\ \A i \in k..Len(log) : log[i].bs.length # Zero32

\* ---------------------------------------------------------------------
\* the bulk state and the VRAM before the transfer log[i]
BulkStateBefore(i) == IF i = 1 THEN IdleBulk ELSE log[i - 1].bs

VramBefore(i) == IF i = 1 THEN EmptyStore ELSE log[i - 1].vram

\* (address - 0xD0000000) + L > VRAM_SIZE, in the 32-bit arithmetic of
\* vram_bulk_write
Overflowing(address, L) ==
    Gt32(Add32(Sub32(address, SISUSB_PCI_MEMBASE), FromNat(L)),
         FromNat(VRAM_SIZE))

IsRejectedChunk(i) ==
    /\ "bytes" \in DOMAIN log[i].xfer
    /\ Overflowing(BulkStateBefore(i).address, Len(log[i].xfer.bytes))

----------------------------------------------------------------------------
(* every 16-bit header on the GFX endpoint *)

HdrAddress == FromNat(\hd010)

HdrPciData == U32(\hA4A3, \hA2A1)
HdrIoData == U32(\hB4B3, \hB2B1)
HdrMemData == U32(\hC4C3, \hC2C1)
HdrProbeData == U32(\h4433, \h2211)

\* the address is written through each of the three access classes: PCI
\* word 0x10, the I/O ports 0x10 .. 0x13 and the VRAM bytes 0xd010 .. 0xd013
HdrSetup ==
    << PciWrite(HdrAddress, HdrPciData),
       MemWrite(HdrAddress, 15, HdrMemData),
       IoWrite(HdrAddress, 1, HdrIoData),
       IoWrite(HdrAddress, 2, HdrIoData),
       IoWrite(HdrAddress, 4, HdrIoData),
       IoWrite(HdrAddress, 8, HdrIoData) >>

Headers == 0..(W16 - 1)

InitHdr == InitState({"overflow", "ioctl"}, {Zero32})

HdrPrepare ==
    /\ Len(log) < Len(HdrSetup)
    /\ ep_gfx_loop(HdrSetup[Len(log) + 1])

HdrRead ==
    /\ Len(log) = Len(HdrSetup)
    /\ \E h \in Headers : ep_gfx_loop(Xfer(6, h, HdrAddress, Zero32))

HdrWrite ==
    /\ Len(log) = Len(HdrSetup)
    /\ \E h \in Headers : ep_gfx_loop(Xfer(10, h, HdrAddress, HdrProbeData))

NextHdr == HdrPrepare \/ HdrRead \/ HdrWrite

SpecHdr == InitHdr /\ [][NextHdr]_vars

\* what a read of HdrAddress returns from each store after the setup
HdrIoExpected(h) ==
    Shl8(FromNat(Byte(HdrIoData, LaneOffset(h % 16))), LaneOffset(h % 16))

HdrMemExpected(h) ==
    LET lane(i) == IF Bit(h, i) = 1 THEN Byte(HdrMemData, i) ELSE 0
    IN  FromBytes(lane(0), lane(1), lane(2), lane(3))

\* C16: for every 16-bit header, a GFX-endpoint access goes to the
\* PCI-config store if and only if the header is 0x008F; otherwise to the
\* I/O-register store if and only if bits 6-7 of the header are 1, and to
\* VRAM if and only if they are 0; a header with bits 6-7 equal to 2 or 3
\* (other than 0x008F) changes no store and has result 0.  A write changes
\* exactly the store of its class (VRAM only with a byte enabled), and a
\* read returns what the setup put into the store of its class.
HeaderClassification ==
    [][(Len(log) = Len(HdrSetup) /\ Len(log') = Len(log) + 1)
       => LET e == log'[Len(log')]
              h == e.xfer.hdr
              bits67 == (h \div 64) % 4
              is_pci == h = \h008F
              is_io == ~is_pci /\ bits67 = 1
              is_mem == ~is_pci /\ bits67 = 0
              wr == e.xfer.len > 6
          IN  /\ (pci_config' # pci_config) <=> (wr /\ is_pci)
              /\ (gfx_reg' # gfx_reg) <=> (wr /\ is_io)
              /\ (vram' # vram) <=> (wr /\ is_mem /\ h % 16 # 0)
              /\ ~wr => e.res = IF is_pci THEN HdrPciData
                                ELSE IF is_io THEN HdrIoExpected(h)
                                ELSE IF is_mem THEN HdrMemExpected(h)
                                ELSE Zero32
              /\ (~is_pci /\ bits67 \in {2, 3})
                 => /\ e.res = Zero32
                    /\ UNCHANGED <<pci_config, gfx_reg, vram, ramtype_req,
                                   vramsize_req, bulk_state>>]_vars

\* a probe whose header has bits 6-7 equal to 1 and a set upper byte went to
\* the I/O registers
HeaderClassificationWitness ==
    /\ Len(log) = Len(HdrSetup) + 1
    /\ log[Len(log)].xfer.hdr = \h0142
    /\ log[Len(log)].xfer.len = 10
    /\ Load(gfx_reg, \h11, Zero32) = FromNat(\h22)
    /\ Load(pci_config, \h10, Zero32) = HdrPciData

----------------------------------------------------------------------------
(* a new configuration arriving while the bulk worker finishes a transfer *)

ResetNextBase == FromNat(\h100)

\* two one-byte transfers, the second to another place
ResetCfgSeq ==
    << BridgeWrite(\h194, SISUSB_PCI_MEMBASE),
       BridgeWrite(\h190, FromNat(1)),
       BridgeWrite(\h180, FromNat(1)),
       BridgeWrite(\h194, Add32(SISUSB_PCI_MEMBASE, ResetNextBase)),
       BridgeWrite(\h190, FromNat(1)),
       BridgeWrite(\h180, FromNat(1)) >>

ResetChunkSeq == << <<\h11>>, <<\h21>> >>

InitReset == InitState({"overflow"}, {Zero32})

ResetBridge ==
    /\ Received("bridge") < Len(ResetCfgSeq)
    /\ ep_bridge_loop(ResetCfgSeq[Received("bridge") + 1])

ResetRecv ==
    /\ Received("bulk") < Len(ResetChunkSeq)
    /\ bulk_recv("bulk", ResetChunkSeq[Received("bulk") + 1])

ResetWrite == bulk_write("bulk")

ResetAddrLoad == bulk_addr_load("bulk")

ResetAddrStore == bulk_addr_store("bulk")

ResetLenLoad == bulk_len_load("bulk")

ResetLenStore == bulk_len_store("bulk")

ResetTest == bulk_test("bulk")

ResetIdle == bulk_reset("bulk")

NextReset ==
    \/ ResetBridge
    \/ ResetRecv
    \/ ResetWrite
    \/ ResetAddrLoad
    \/ ResetAddrStore
    \/ ResetLenLoad
    \/ ResetLenStore
    \/ ResetTest
    \/ ResetIdle

SpecReset == InitReset /\ [][NextReset]_vars

\* the first chunk arrived after the first configuration, and the second
\* configuration after the worker had applied that chunk and brought the
\* length to 0: only the test and the reset of that iteration were left
ResetScenario ==
    /\ Len(log) >= 7
    /\ \A i \in 1..3 : log[i].ep = "bridge"
    /\ log[4].ep = "bulk"
    /\ \A i \in 5..7 : log[i].ep = "bridge"
    /\ log[5].bs.length = Zero32

\* C19: configuration writes are atomic with respect to chunk consumption.
\* When the bulk worker is finishing the previous transfer (resetting the
\* bulk state to idle) while the bridge worker processes the address, length
\* and commit writes of a new configuration, the reset never overwrites the
\* new configuration: once the worker waits for the next chunk the state is
\* configured = TRUE at the new address, and the next chunk is stored there.
ConfigurationSurvivesReset ==
    (ResetScenario /\ pc["bulk"] = "recv")
    => /\ Len(log) = 7
          => /\ bulk_state.configured
             /\ bulk_state.address = Add32(SISUSB_PCI_MEMBASE, ResetNextBase)
             /\ bulk_state.length = FromNat(1)
       /\ Len(log) = 8
          => Load(vram, Val(ResetNextBase), 0) = ResetChunkSeq[2][1]

\* ---------------------------------------------------------------------
\* C20: a pending one-shot query is consumed only by a read.  After the
\* arming write log[i], I/O-register writes that do not arm a query
\* (log[i+1 .. j-1], at least one) leave the query pending, and the next
\* I/O-register read log[j] still returns the synthesized byte in its lane.
PendingQuerySurvivesWrites ==
    \A i \in 1..Len(log) : \A j \in (i + 2)..Len(log) :
        (/\ IsArming(log[i])
         /\ \A k \in (i + 1)..(j - 1) :
                IsIoRegister(log[k]) /\ ~IsRead(log[k]) /\ ~IsArming(log[k])
         /\ IsIoRegister(log[j]) /\ IsRead(log[j]))
        => log[j].res = Shl8(FromNat(Synthesized(log[i])), IoLane(log[j]))

\* ---------------------------------------------------------------------
\* C21: a one-shot query is armed only by a write access that stores 0x3A
\* or 0x14 at I/O offset 0x44.  A flag that is raised by a step was raised
\* by such a write, and after a read access of an I/O register no query is
\* pending, whatever the receive buffer holds beyond the 6 received bytes.
ArmedOnlyByWrite ==
    [][Len(log') = Len(log) + 1
       => LET e == log'[Len(log')]
          IN  /\ ((ramtype_req' /\ ~ramtype_req)
                    \/ (vramsize_req' /\ ~vramsize_req))
                 => IsArming(e)
              /\ (IsIoRegister(e) /\ IsRead(e))
                 => (~ramtype_req' /\ ~vramsize_req')]_vars

----------------------------------------------------------------------------
(* every I/O register: a write, then a read at the same address *)

LaneBases == { FromNat(\hd000 + b) : b \in 0..(GFX_REG_SIZE - 1) }

LaneNibbles == {0, 1, 2, 4, 8}

LaneData == { U32(\hD4C3, \hB2A1), U32(\h3a3a, \h3a3a) }

InitLane == InitState({"overflow", "ioctl"}, {Zero32, FromNat(\h3a)})

LaneWrite ==
    /\ Len(log) = 0
    /\ \E a \in LaneBases : \E n \in LaneNibbles : \E d \in LaneData :
           ep_gfx_loop(IoWrite(a, n, d))

LaneRead ==
    /\ Len(log) = 1
    /\ \E n \in LaneNibbles : ep_gfx_loop(IoRead(log[1].xfer.addr, n))

NextLane == LaneWrite \/ LaneRead

SpecLane == InitLane /\ [][NextLane]_vars

\* the port of an I/O access: lane offset 3, 2, 1 for the header low nibble
\* 8, 4, 2 and 0 otherwise
LanePort(e) ==
    LET n == e.xfer.hdr % 16
        off == IF n = 8 THEN 3 ELSE IF n = 4 THEN 2 ELSE IF n = 2 THEN 1 ELSE 0
    IN  Val(ClearIoBase(e.xfer.addr)) + off

\* C22: I/O-register lane round trip.  For every port P below 128 and every
\* data word W, an I/O write to P followed by an I/O read of P with no query
\* pending returns a word whose byte lane P mod 4 is byte P mod 4 of W and
\* whose other lanes are 0.
LaneRoundTrip ==
    [][(/\ Len(log) = 1 /\ Len(log') = 2
        /\ IsIo(log[1]) /\ ~IsRead(log[1])
        /\ IsIo(log'[2]) /\ IsRead(log'[2])
        /\ LanePort(log[1]) < GFX_REG_SIZE
        /\ LanePort(log'[2]) = LanePort(log[1])
        /\ ~ramtype_req /\ ~vramsize_req)
       => LET P == LanePort(log[1])
              W == log[1].xfer.data
              lane(i) == IF i = P % 4 THEN Byte(W, i) ELSE 0
          IN  log'[2].res = FromBytes(lane(0), lane(1), lane(2), lane(3))]_vars

\* port 0x7f, the last one, written through lane 3 and read back
LaneRoundTripWitness ==
    /\ Len(log) = 2
    /\ LanePort(log[1]) = GFX_REG_SIZE - 1
    /\ log[1].xfer.hdr % 16 = 8
    /\ LanePort(log[2]) = LanePort(log[1])
    /\ IsRead(log[2])
    /\ log[2].res = U32(\hD400, 0)

----------------------------------------------------------------------------
(* VRAM accesses with strict_bounds_check set: a write, then a read *)

\* inside VRAM, across its end, across the wrap of the offset below the
\* base, and far outside
StrictAddrs ==
    { Add32(SISUSB_PCI_MEMBASE, FromNat(\h100)),
      VramEnd(2),
      Sub32(SISUSB_PCI_MEMBASE, FromNat(2)),
      FromNat(\h10) }

StrictMasks == 0..15

StrictData == U32(\h4433, \h2211)

\* the device as built with the initialiser of strict_bounds_check changed
\* to true
InitStrict ==
    /\ InitConfigured({"overflow", "ioctl"}, {Zero32}, {TRUE})
    /\ ep_handle = Enabled
    /\ spawned = 1
    /\ pc = [w \in BulkWorkers |-> "recv"]
    /\ loc = [w \in BulkWorkers |-> [data |-> <<>>, tmp |-> Zero32]]
    /\ cfg_in = [size_bytes |-> Zero32, mode |-> 0, mib |-> 0]

StrictWrite ==
    /\ Len(log) = 0
    /\ \E a \in StrictAddrs : \E m \in StrictMasks :
           ep_gfx_loop(MemWrite(a, m, StrictData))

StrictRead ==
    /\ Len(log) = 1
    /\ \E a \in StrictAddrs : \E m \in StrictMasks : ep_gfx_loop(MemRead(a, m))

NextStrict == StrictWrite \/ StrictRead

SpecStrict == InitStrict /\ [][NextStrict]_vars

\* lane i of the access e is active and (address - 0xD0000000 + i) mod 2^32
\* is below VRAM_SIZE
StrictLaneAddr(e, i) ==
    Add32(Sub32(e.xfer.addr, SISUSB_PCI_MEMBASE), FromNat(i))

StrictLaneKept(e, i) ==
    Bit(e.xfer.hdr, i) = 1 /\ Lt32(StrictLaneAddr(e, i), FromNat(VRAM_SIZE))

\* C23: in strict-bounds mode each active lane i whose address
\* (address - 0xD0000000 + i) mod 2^32 is >= VRAM_SIZE is dropped: a write
\* changes no VRAM byte for it and a read contributes 0 in that lane, while
\* the active in-range lanes of the same packet are still read or written.
StrictLaneDropped ==
    [][(strict_bounds_check /\ Len(log') = Len(log) + 1
            /\ IsMem(log'[Len(log')]))
       => LET e == log'[Len(log')]
              kept == { i \in 0..3 : StrictLaneKept(e, i) }
              cells == { Val(StrictLaneAddr(e, i)) : i \in kept }
              lane(i) == IF i \in kept
                         THEN Load(vram, Val(StrictLaneAddr(e, i)), 0)
                         ELSE 0
          IN  IF IsRead(e)
              THEN /\ e.res = FromBytes(lane(0), lane(1), lane(2), lane(3))
                   /\ vram' = vram
              ELSE \A k \in DOMAIN vram \cup DOMAIN vram' \cup cells :
                     Load(vram', k, 0) =
                        IF k \in cells
                        THEN Byte(e.xfer.data,
                                  CHOOSE i \in kept :
                                      Val(StrictLaneAddr(e, i)) = k)
                        ELSE Load(vram, k, 0)]_vars

\* a four-lane write two bytes before the end of VRAM stored lanes 0 and 1
\* only, and the read of the same word returns them with lanes 2 and 3 zero
StrictLaneWitness ==
    /\ strict_bounds_check
    /\ Len(log) = 2
    /\ log[1].xfer = MemWrite(VramEnd(2), 15, StrictData)
    /\ log[2].xfer = MemRead(VramEnd(2), 15)
    /\ log[2].res = U32(0, \h2211)
    /\ Cardinality(DOMAIN vram) = 2

----------------------------------------------------------------------------
(* VRAM lane writes on a device whose other stores are in use *)

\* a PCI word, a pending RAM-type query, a committed bulk configuration and
\* VRAM bytes at both ends of the array
FrameSetup ==
    << [ep |-> "gfx", xfer |-> PciWrite(FromNat(\h10), U32(\hA4A3, \hA2A1))],
       [ep |-> "bridge", xfer |-> BridgeWrite(\h194, SISUSB_PCI_MEMBASE)],
       [ep |-> "bridge", xfer |-> BridgeWrite(\h190, FromNat(4))],
       [ep |-> "bridge", xfer |-> BridgeWrite(\h180, FromNat(1))],
       [ep |-> "gfx", xfer |-> MemWrite(VramEnd(2), 15, U32(\hC4C3, \hC2C1))],
       [ep |-> "gfx", xfer |-> IoWrite(FromNat(\hd044), 1, FromNat(\h3a))] >>

FrameAddrs ==
    { Add32(SISUSB_PCI_MEMBASE, FromNat(\h100)),
      VramEnd(2),
      Sub32(SISUSB_PCI_MEMBASE, FromNat(2)),
      FromNat(\h10) }

FrameMasks == 0..15

FrameData == { U32(\h4433, \h2211), U32(0, \hC100) }

InitFrame == InitState({"overflow", "ioctl"}, {Zero32})

FramePrepare ==
    /\ Len(log) < Len(FrameSetup)
    /\ LET x == FrameSetup[Len(log) + 1]
       IN  IF x.ep = "gfx" THEN ep_gfx_loop(x.xfer) ELSE ep_bridge_loop(x.xfer)

FrameWrite ==
    /\ Len(log) = Len(FrameSetup)
    /\ \E a \in FrameAddrs : \E m \in FrameMasks : \E d \in FrameData :
           ep_gfx_loop(MemWrite(a, m, d))

NextFrame == FramePrepare \/ FrameWrite

SpecFrame == InitFrame /\ [][NextFrame]_vars

\* C24: frame of a VRAM lane write in lenient mode.  A VRAM write with lane
\* mask M and data D changes exactly the bytes
\* VRAM[(address - 0xD0000000 + i) mod VRAM_SIZE] for the lanes i in M,
\* setting each to byte i of D; every other VRAM byte, the PCI-config, bridge
\* and I/O stores, the bulk state and the one-shot flags are unchanged.
VramWriteFrame ==
    [][(/\ ~strict_bounds_check
        /\ Len(log) = Len(FrameSetup) /\ Len(log') = Len(log) + 1
        /\ IsMem(log'[Len(log')]) /\ ~IsRead(log'[Len(log')]))
       => LET e == log'[Len(log')]
              M == { i \in 0..3 : Bit(e.xfer.hdr, i) = 1 }
              cells == { LenientIndex(e.xfer.addr, i) : i \in M }
          IN  /\ \A k \in DOMAIN vram \cup DOMAIN vram' \cup cells :
                     Load(vram', k, 0) =
                        IF k \in cells
                        THEN Byte(e.xfer.data,
                                  CHOOSE i \in M :
                                      LenientIndex(e.xfer.addr, i) = k)
                        ELSE Load(vram, k, 0)
              /\ UNCHANGED <<pci_config, bridge_reg, gfx_reg, bulk_state,
                             ramtype_req, vramsize_req>>]_vars

\* lanes 1 and 3 written two bytes below the base: lane 1 lands on the last
\* byte of VRAM and lane 3 on byte 1, the lanes 0 and 2 keep what they held,
\* and the query armed before is still pending
VramWriteFrameWitness ==
    /\ Len(log) = Len(FrameSetup) + 1
    /\ log[Len(log)].xfer
         = MemWrite(Sub32(SISUSB_PCI_MEMBASE, FromNat(2)), 10, U32(\h4433, \h2211))
    /\ Load(vram, VRAM_SIZE - 1, 0) = \h22
    /\ Load(vram, 1, 0) = \h44
    /\ Load(vram, VRAM_SIZE - 2, 0) = \hC1
    /\ Load(vram, 0, 0) = \hC3
    /\ ramtype_req
    /\ bulk_state.configured

----------------------------------------------------------------------------
(* bulk chunks with the cursor around the VRAM base *)

MaxWrapChunks == 3

WrapAddrs ==
    { SISUSB_PCI_MEMBASE,
      Sub32(SISUSB_PCI_MEMBASE, FromNat(1)),
      Sub32(SISUSB_PCI_MEMBASE, FromNat(2)),
      Sub32(SISUSB_PCI_MEMBASE, FromNat(EP_MAX_PACKET_BULK)),
      VramEnd(1) }

WrapMenuChunks == { <<\h11>>, <<\h21, \h22>>, <<\h31, \h32, \h33>> }

InitWrap == InitState({"overflow"}, {Zero32})

\* the driver's three configuration writes, the address drawn from WrapAddrs
WrapBridge ==
    \/ /\ Len(log) = 0
       /\ \E a \in WrapAddrs : ep_bridge_loop(BridgeWrite(\h194, a))
    \/ /\ Len(log) = 1
       /\ ep_bridge_loop(BridgeWrite(\h190, FromNat(EP_MAX_PACKET_BULK)))
    \/ /\ Len(log) = 2
       /\ ep_bridge_loop(BridgeWrite(\h180, FromNat(1)))

WrapChunks ==
    /\ Len(log) >= 3
    /\ Len(log) < 3 + MaxWrapChunks
    /\ \E d \in WrapMenuChunks : ep_bulk_iteration("bulk", d)

NextWrap == WrapBridge \/ WrapChunks

SpecWrap == InitWrap /\ [][NextWrap]_vars

\* C25: memory safety of bulk chunk writes under 32-bit arithmetic.  For
\* every target address, also just below the VRAM base where the offset
\* wraps to a value near 2^32 and offset + L wraps past zero, and every
\* chunk length up to 512, vram_bulk_write in the overflow-test build copies
\* bytes only into VRAM indices [0, VRAM_SIZE); a chunk that does not fit is
\* rejected, never written out of bounds.
BulkWriteInBounds ==
    build = "overflow" => ~oob

----------------------------------------------------------------------------
(* bridge accesses around the six bulk configuration offsets *)

MaxCfgOps == 3

\* the six offsets, their neighbours, and an address past the register file
\* whose low bits are those of 0x194
CfgMenuAddr ==
    { FromNat(\h194), FromNat(\h1d4), FromNat(\h190), FromNat(\h1d0),
      FromNat(\h180), FromNat(\h1c0), FromNat(\h195), FromNat(\h184),
      FromNat(\h1194) }

CfgMenuData == { U32(\hD000, \h0100), FromNat(\h40) }

CfgMenu ==
    { BridgeRead(a) : a \in CfgMenuAddr }
    \cup { Xfer(10, \h1f, a, d) : a \in CfgMenuAddr, d \in CfgMenuData }

InitCfg == InitState({"overflow", "ioctl"}, {Zero32})

CfgOps == Len(log) < MaxCfgOps /\ \E x \in CfgMenu : ep_bridge_loop(x)

NextCfg == CfgOps

SpecCfg == InitCfg /\ [][NextCfg]_vars

\* C26: the small and the large bulk offsets drive one bulk state.  A bridge
\* write of D to 0x194 or 0x1D4 sets the address to D, to 0x190 or 0x1D0 the
\* length, to 0x180 or 0x1C0 the flags and configured = TRUE, each leaving
\* the other fields unchanged; bridge writes to every other address and all
\* bridge reads leave the bulk state unchanged.
BulkOffsetsShared ==
    [][(Len(log') = Len(log) + 1 /\ log'[Len(log')].ep = "bridge")
       => LET e == log'[Len(log')]
              a == Val(e.xfer.addr)
              D == e.xfer.data
              wr == e.xfer.len > 6
          IN  bulk_state' =
                IF wr /\ a \in {\h194, \h1D4}
                THEN [bulk_state EXCEPT !.address = D]
                ELSE IF wr /\ a \in {\h190, \h1D0}
                THEN [bulk_state EXCEPT !.length = D]
                ELSE IF wr /\ a \in {\h180, \h1C0}
                THEN [bulk_state EXCEPT !.flags = D, !.configured = TRUE]
                ELSE bulk_state]_vars

\* a small-path configuration overwritten by a large-path address write
BulkOffsetsSharedWitness ==
    /\ Len(log) = 3
    /\ log[1].xfer = Xfer(10, \h1f, FromNat(\h194), U32(\hD000, \h0100))
    /\ log[2].xfer = Xfer(10, \h1f, FromNat(\h180), FromNat(\h40))
    /\ log[3].xfer = Xfer(10, \h1f, FromNat(\h1d4), FromNat(\h40))
    /\ bulk_state = [address |-> FromNat(\h40), length |-> Zero32,
                     flags |-> FromNat(\h40), configured |-> TRUE]

\* ---------------------------------------------------------------------
\* the transfers since the test sequence last cleared the flag
SinceClear ==
    { i \in 1..Len(log) : \A j \in i..Len(log) : log[j].ep # "test" }

\* C27 as stated: after the test sequence clears it, the OverflowFlag
\* becomes true only if a data chunk was received while the target address
\* was the sentinel 0xFFFFFFF0 with a remaining length above 0x10; bridge
\* configuration writes alone, with no chunk received, leave it false.
OverflowOnlyAfterChunk ==
    overflow
    => \E i \in SinceClear :
        /\ log[i].ep \in BulkWorkers
        /\ BulkStateBefore(i).address = OVERFLOW_ADDRESS
        /\ Gt32(BulkStateBefore(i).length, FromNat(\h10))

\* C27 as amended: the OverflowFlag becomes true only by a bridge write
\* after which the target address is the sentinel 0xFFFFFFF0 and the
\* remaining length exceeds 0x10; a received chunk never raises it.
OverflowRaisedByBridgeWrite ==
    [][(overflow' /\ ~overflow)
       => /\ Len(log') = Len(log) + 1
          /\ IsBridgeWrite(log'[Len(log')])
          /\ bulk_state'.address = OVERFLOW_ADDRESS
          /\ Gt32(bulk_state'.length, FromNat(\h10))]_vars

\* the flag cleared by the test sequence and raised again by a bridge write,
\* with no chunk received at all
OverflowRaisedWitness ==
    /\ overflow
    /\ \E i \in 1..Len(log) : log[i].ep = "test"
    /\ SinceClear # {}
    /\ \A i \in 1..Len(log) : log[i].ep \notin BulkWorkers

\* ---------------------------------------------------------------------
\* C28: the VRAM-size override reports the advertised size, not the backing
\* store.  When a VRAM-size query is pending, the result of an I/O-register
\* read is get_vram_config_reg(advertised size, topology mode) shifted into
\* the accessed byte lane, replacing the value read from the register
\* store; in the overflow-test build that is 0xA0, the encoding of 1 GiB in
\* mode 0, and in the other build the encoding of 8 MiB in mode 2.
VramSizeOverride ==
    [][(/\ vramsize_req
        /\ Len(log') = Len(log) + 1
        /\ IsIoRegister(log'[Len(log')]) /\ IsRead(log'[Len(log')]))
       => LET e == log'[Len(log')]
              byte == IF build = "overflow" THEN \hA0
                      ELSE CfgExpected(VRAM_SIZE \div (2^20), SISUSB_RAM_ASYM)
              lane(i) == IF i = IoLane(e) THEN byte ELSE 0
          IN  e.res = FromBytes(lane(0), lane(1), lane(2), lane(3))]_vars

\* the query armed at port 0x44, which then holds 0x14, and read through
\* lane 1 at port 0x45 in the overflow-test build
VramSizeOverrideWitness ==
    /\ build = "overflow"
    /\ Len(log) >= 2
    /\ IsArming(log[Len(log) - 1])
    /\ log[Len(log) - 1].xfer.data = FromNat(\h14)
    /\ log[Len(log)].xfer = IoRead(FromNat(\hd044), 2)
    /\ log[Len(log)].res = U32(0, \hA000)

----------------------------------------------------------------------------
(* the frame-complete beacon *)

MaxBeaconOps == 4

\* the beacon write, near misses of it, and accesses of the other kinds with
\* the beacon's address and data
BeaconMenu ==
    { MemWrite(CORNER_ADDRESS, 12, CORNER_DATA),
      MemWrite(CORNER_ADDRESS, 12, U32(\hf100, 1)),
      MemWrite(Add32(CORNER_ADDRESS, FromNat(4)), 12, CORNER_DATA),
      MemRead(CORNER_ADDRESS, 12),
      PciWrite(CORNER_ADDRESS, CORNER_DATA),
      IoWrite(CORNER_ADDRESS, 8, CORNER_DATA),
      IoRead(CORNER_ADDRESS, 8) }

InitBeacon == InitState({"overflow", "ioctl"}, {Zero32, CORNER_DATA})

BeaconOps == Len(log) < MaxBeaconOps /\ \E x \in BeaconMenu : ep_gfx_loop(x)

NextBeacon == BeaconOps

SpecBeacon == InitBeacon /\ [][NextBeacon]_vars

\* a VRAM write access with address 0xD0095FFC and data 0xF1000000
IsCornerHit(e) ==
    /\ IsMem(e) /\ ~IsRead(e)
    /\ e.xfer.addr = U32(\hd009, \h5ffc)
    /\ e.xfer.data = U32(\hf100, 0)

CornerHits == Cardinality({ i \in 1..Len(log) : IsCornerHit(log[i]) })

\* C29: only a VRAM write access with address 0xD0095FFC and data
\* 0xF1000000 counts as a corner hit; main_running stays true after the
\* first hit, becomes false exactly at the second hit, and later hits change
\* nothing; read accesses, PCI-config accesses and I/O accesses with the
\* same address and data never count.
FrameCompleteBeacon ==
    /\ corner_hits = CornerHits
    /\ main_running <=> CornerHits < 2

\* three beacon writes and a read of the beacon address, in any order
FrameCompleteBeaconWitness ==
    /\ Len(log) = 4
    /\ CornerHits = 3
    /\ \E i \in 1..Len(log) : log[i].xfer = MemRead(CORNER_ADDRESS, 12)
    /\ ~main_running

----------------------------------------------------------------------------
(* from enumeration to the start of the test routine *)

\* SET_CONFIGURATION, then the string descriptor request that ends the
\* event loop
StartEvents ==
    << ControlEvent(\h00, \h09, 1, 0), ControlEvent(\h80, \h06, \h305, 255) >>

\* the driver draws the two lines that end at the bottom right corner
StartHits ==
    << MemWrite(CORNER_ADDRESS, 12, CORNER_DATA),
       MemWrite(CORNER_ADDRESS, 12, CORNER_DATA) >>

\* bridge writes that raise the overflow flag
StartCfgSeq ==
    << BridgeWrite(\h194, OVERFLOW_ADDRESS),
       BridgeWrite(\h190, U32(\h00FF, \hFFFF)) >>

InitStart ==
    /\ InitStores({"overflow", "ioctl"}, {Zero32})
    /\ ep_handle = NotEnabled
    /\ spawned = 0
    /\ pc = [w \in BulkThreads |-> "off"]
    /\ loc = [w \in BulkThreads |-> [data |-> <<>>, tmp |-> Zero32]]
    /\ cfg_in = [size_bytes |-> Zero32, mode |-> 0, mib |-> 0]

StartEvent ==
    /\ Received("ep0") < Len(StartEvents)
    /\ ep0_event(StartEvents[Received("ep0") + 1])

StartLeave == ep0_leave

StartWait == ep0_wait

StartBeacon ==
    /\ spawned >= 1
    /\ Received("gfx") < Len(StartHits)
    /\ ep_gfx_loop(StartHits[Received("gfx") + 1])

StartBridge ==
    /\ spawned >= 1
    /\ Received("bridge") < Len(StartCfgSeq)
    /\ ep_bridge_loop(StartCfgSeq[Received("bridge") + 1])

NextStart ==
    \/ StartEvent
    \/ StartLeave
    \/ StartWait
    \/ StartBeacon
    \/ StartBridge

SpecStart == InitStart /\ [][NextStart]_vars

\* C30: the outer control loop proceeds only on the beacon.  In both builds
\* the test routine that follows initialisation is started only after the
\* frame-complete signal has been raised (second corner hit, main_running
\* false).
TestStartsAfterBeacon ==
    ep0_pc = "test" => ~main_running

\* ---------------------------------------------------------------------
\* the threads created for the endpoint e that have not ended
WorkersOn(e) == { w \in BulkThreads : EndpointOf(w) = e /\ pc[w] # "off" }

\* C31: worker multiplicity.  In every state reachable by any sequence of
\* control requests, repeated SET_CONFIGURATION requests included, each
\* endpoint has at most one worker receiving on it: the four workers have
\* been created at most once.
OneWorkerPerEndpoint ==
    /\ spawned <= 1
    /\ \A e \in BulkWorkers : Cardinality(WorkersOn(e)) <= 1

----------------------------------------------------------------------------
(* the four endpoint workers side by side *)

\* PCI word 0x10 written through two addresses and read back, and a
\* one-shot query armed and read
ParGfxSeq ==
    << PciWrite(FromNat(\h10), U32(\hA4A3, \hA2A1)),
       PciWrite(FromNat(\h90), U32(\hB4B3, \hB2B1)),
       PciRead(FromNat(\h10)),
       IoWrite(FromNat(\hd044), 1, FromNat(\h3a)),
       IoRead(FromNat(\hd044), 1) >>

\* bridge word 0x10, and the cursor set into VRAM
ParCfgSeq ==
    << BridgeWrite(\h40, U32(\hC4C3, \hC2C1)),
       BridgeWrite(\h194, Add32(SISUSB_PCI_MEMBASE, FromNat(\h10))) >>

ParChunk == <<\h11, \h12>>

InitPar == InitState({"overflow"}, {Zero32})

ParGfx ==
    /\ Received("gfx") < Len(ParGfxSeq)
    /\ ep_gfx_loop(ParGfxSeq[Received("gfx") + 1])

ParBridge ==
    /\ Received("bridge") < Len(ParCfgSeq)
    /\ ep_bridge_loop(ParCfgSeq[Received("bridge") + 1])

\* the worker of the small bulk endpoint, statement by statement
ParRecv == Received("bulk") = 0 /\ bulk_recv("bulk", ParChunk)

ParWrite == bulk_write("bulk")

ParAddrLoad == bulk_addr_load("bulk")

ParAddrStore == bulk_addr_store("bulk")

ParLenLoad == bulk_len_load("bulk")

ParLenStore == bulk_len_store("bulk")

ParTest == bulk_test("bulk")

\* the worker of the large bulk endpoint, one chunk in one step
ParLarge == Received("lbulk") = 0 /\ ep_bulk_iteration("lbulk", ParChunk)

NextPar ==
    \/ ParGfx
    \/ ParBridge
    \/ ParRecv
    \/ ParWrite
    \/ ParAddrLoad
    \/ ParAddrStore
    \/ ParLenLoad
    \/ ParLenStore
    \/ ParTest
    \/ ParLarge

SpecPar == InitPar /\ [][NextPar]_vars

\* the data of the latest PCI-config write to the masked index idx among
\* log[1..n], 0 if there is none
RECURSIVE LatestPciWrite(_, _)
LatestPciWrite(idx, n) ==
    IF n = 0 THEN Zero32
    ELSE IF IsPci(log[n]) /\ ~IsRead(log[n]) /\ PciIndex(log[n]) = idx
         THEN log[n].xfer.data
         ELSE LatestPciWrite(idx, n - 1)

\* C32: PCI-config ordering holds under concurrency.  Under every
\* interleaving of the four endpoint workers a PCI-config read returns the
\* value of the latest PCI-config write to the same masked index that
\* preceded it on the GFX endpoint, and no step of the bridge worker or of a
\* bulk worker changes the PCI-config store, the I/O-register store or the
\* one-shot flags, which decide the result of an I/O-register read.
PciOrderUnderConcurrency ==
    [][/\ (Len(log') = Len(log) + 1
              /\ IsPci(log'[Len(log')]) /\ IsRead(log'[Len(log')]))
          => log'[Len(log')].res
                = LatestPciWrite(PciIndex(log'[Len(log')]), Len(log))
       /\ ~(Len(log') = Len(log) + 1 /\ log'[Len(log')].ep = "gfx")
          => UNCHANGED <<pci_config, gfx_reg, ramtype_req, vramsize_req,
                         gfx_io_data>>]_vars

\* PCI word 0x10 written twice and read back, with the bridge write to word
\* 0x10 of its own store and a chunk of each bulk worker in between
PciOrderWitness ==
    /\ Len(log) >= 7
    /\ \E i, j, k \in 1..Len(log) :
        /\ i < j /\ j < k
        /\ log[i].xfer = PciWrite(FromNat(\h90), U32(\hB4B3, \hB2B1))
        /\ log[j].ep = "bridge"
        /\ log[k].ep \in BulkWorkers
        /\ k < Len(log)
        /\ log[k + 1].xfer = PciRead(FromNat(\h10))
        /\ log[k + 1].res = U32(\hB4B3, \hB2B1)
        /\ log[Len(log)].xfer = IoRead(FromNat(\hd044), 1)
        /\ log[Len(log)].res = FromNat(RAM_TYPE)
    /\ Load(bridge_reg, \h10, Zero32) = U32(\hC4C3, \hC2C1)
    /\ \A w \in BulkWorkers : Received(w) = 1 /\ pc[w] = "recv"
    /\ Load(vram, \h10, 0) = \h11

\* the handle a bulk worker reads at the top of its loop
OutHandle(w) == IF EndpointOf(w) = "bulk" THEN "gfx_bulk_out"
                ELSE "gfx_lbulk_out"

\* C33: no transfer is processed before the device is configured: a worker
\* exists only after a SET_CONFIGURATION, and whenever a worker exists the
\* handle of its OUT endpoint is not -1.
WorkersAfterEnable ==
    /\ \A w \in BulkThreads :
           pc[w] # "off"
           => /\ ep_handle[OutHandle(w)] # -1
              /\ \E j \in 1..Len(log) : IsSetConfiguration(log[j])
    /\ spawned >= 1
           => /\ ep_handle["bridge_out"] # -1
              /\ ep_handle["gfx_out"] # -1
    /\ \A i \in 1..Len(log) :
           log[i].ep # "ep0"
           => \E j \in 1..(i - 1) : IsSetConfiguration(log[j])

WorkersAfterEnableWitness ==
    /\ \E i \in 1..Len(log) : IsChunk(log[i])
    /\ \E i \in 1..Len(log) : log[i].ep = "bridge"
    /\ \E w \in BulkThreads : pc[w] = "recv" /\ EndpointOf(w) = "lbulk"

\* C34: remainingLength never underflows: every chunk consumed by a bulk
\* worker is no longer than the remaining length before it, and consuming
\* it does not increase the remaining length.
RemainingNeverUnderflows ==
    \A i \in 1..Len(log) :
        IsChunk(log[i])
        => /\ ~Gt32(FromNat(Len(log[i].xfer.bytes)), BulkStateBefore(i).length)
           /\ ~Gt32(log[i].bs.length, BulkStateBefore(i).length)

\* ---------------------------------------------------------------------
\* The control loop alone: requests whose wLength is shorter than, equal
\* to and longer than the reply prepared for them.
\* ---------------------------------------------------------------------

\* the capacity of the data field of struct usb_raw_control_io
EP_MAX_PACKET_CONTROL == 64

Ep0MenuEvents ==
    { OtherEvent("CONNECT"),
      ControlEvent(\h00, \h09, 1, 0),
      ControlEvent(\h80, \h06, \h100, 8),
      ControlEvent(\h80, \h06, \h100, 18),
      ControlEvent(\h80, \h06, \h100, 64),
      ControlEvent(\h80, \h06, \h200, 9),
      ControlEvent(\h80, \h06, \h200, 255),
      ControlEvent(\h80, \h06, \h300, 2),
      ControlEvent(\h80, \h06, \h301, 255),
      ControlEvent(\h80, \h06, \h600, 10),
      ControlEvent(\hC0, \h06, \h100, 18) }

Ep0Event ==
    /\ Received("ep0") < MaxCtrlEvents
    /\ \E ev \in Ep0MenuEvents :
           /\ (ev.type = "CONTROL" /\ ep0_request(ev).configure)
                  => spawned < MaxConfigs
           /\ ep0_event(ev)

NextEp0 == Ep0Event

SpecEp0 == InitCtrl /\ [][NextEp0]_vars

\* the smaller of two naturals
Smaller(a, b) == IF a <= b THEN a ELSE b

\* the length of the reply ep0_request prepares for a standard request
PreparedLength(ev) ==
    IF ev.bRequest = \h09 THEN 0
    ELSE CASE ev.wValue \div 256 = 1 -> 18
           [] ev.wValue \div 256 = 2 -> 60
           [] ev.wValue \div 256 = 3 -> 4

\* C35: for every control request that is answered, the length handed to
\* the transport is the smaller of the prepared reply length and wLength;
\* it exceeds neither wLength nor the 64-byte control buffer, and the
\* configuration descriptor totals 60 bytes.
ControlLengthClamped ==
    /\ CONFIG_TOTAL_LENGTH = 60
    /\ \A i \in 1..Len(log) :
           (IsEvent(log[i], "CONTROL") /\ log[i].reply)
           => LET ev == log[i].xfer.event
                  L == Val(log[i].res)
              IN  /\ L = Smaller(PreparedLength(ev), ev.wLength)
                  /\ L <= ev.wLength
                  /\ L <= EP_MAX_PACKET_CONTROL

ControlLengthWitness ==
    /\ \E i \in 1..Len(log) :
           /\ IsEvent(log[i], "CONTROL") /\ log[i].reply
           /\ log[i].xfer.event.wLength = 8
           /\ Val(log[i].res) = 8
    /\ \E i \in 1..Len(log) :
           /\ IsEvent(log[i], "CONTROL") /\ log[i].reply
           /\ log[i].xfer.event.wLength = 255
           /\ Val(log[i].res) = 60

-----------------------------------------------------------------------------
(* The device-initialisation build (sisusbvga-init-gfx-dev.c): PCI         *)
(* configuration space and bridge registers only; any other GFX transfer   *)
(* stops the emulation.                                                    *)

DevThreads == {"bridge", "gfx"}

\* process_packet_bridge: the address indexes bridge_reg as it is
dev_process_packet_bridge(pkt, is_read) ==
    LET in_range == pkt.addr.hi = 0 /\ pkt.addr.lo < PCI_BRIDGE_REG_SIZE
    IN  [bridge_reg |-> IF ~is_read /\ in_range
                        THEN Store(bridge_reg, pkt.addr.lo, pkt.data, Zero32)
                        ELSE bridge_reg,
         result |-> IF is_read /\ in_range
                    THEN Load(bridge_reg, pkt.addr.lo, Zero32)
                    ELSE Zero32]

\* process_packet_gfx: header 0x008f is a PCI-config access, every other
\* header clears keep_running
dev_process_packet_gfx(pkt, is_read) ==
    LET address == pkt.addr.lo % PCI_CONFIG_SIZE
    IN  IF pkt.hdr = \h8f
        THEN [pci_config |-> IF is_read THEN pci_config
                             ELSE Store(pci_config, address, pkt.data, Zero32),
              result |-> IF is_read THEN Load(pci_config, address, Zero32)
                         ELSE Zero32,
              keep_running |-> keep_running]
        ELSE [pci_config |-> pci_config,
              result |-> Zero32,
              keep_running |-> FALSE]

\* while (keep_running) at the top of a worker loop: on to the blocking
\* usb_raw_ep_read, or out of the loop and the thread returns
dev_worker_top(w) ==
    /\ ~exited
    /\ pc[w] = "top"
    /\ pc' = [pc EXCEPT ![w] = IF keep_running THEN "recv" ELSE "done"]
    /\ UNCHANGED <<build, strict_bounds_check, keep_running, pci_config,
                   bridge_reg, gfx_reg, vram, bulk_state, overflow,
                   ramtype_req, vramsize_req, corner_hits, main_running, oob,
                   gfx_io_data, bridge_io_data, loc, log, cfg_in, cfg_out,
                   ctlvars>>

\* usb_raw_ep_read of ep_bridge_loop returns a transfer; the rest of the
\* iteration
dev_ep_bridge_loop(xfer) ==
    LET is_read == IsReadTransfer(xfer.len)
        data == RecvData(xfer.len, xfer.data, bridge_io_data)
        r == dev_process_packet_bridge([xfer EXCEPT !.data = data], is_read)
        handled == Handled(xfer.len)
    IN  /\ ~exited
        /\ pc["bridge"] = "recv"
        /\ pc' = [pc EXCEPT !["bridge"] = "top"]
        /\ bridge_io_data' = data
        /\ bridge_reg' = IF handled THEN r.bridge_reg ELSE bridge_reg
        /\ log' = Append(log,
                Snapshot(LogEntry("bridge", xfer,
                                  IF handled THEN r.result ELSE NoResult,
                                  handled /\ is_read
                                    /\ ep_handle["bridge_in"] # -1),
                         bulk_state, vram, overflow))
        /\ UNCHANGED <<build, strict_bounds_check, keep_running, pci_config,
                       gfx_reg, vram, bulk_state, overflow, ramtype_req,
                       vramsize_req, corner_hits, main_running, oob,
                       gfx_io_data, loc, cfg_in, cfg_out, ctlvars>>

\* usb_raw_ep_read of ep_gfx_loop returns a transfer; the rest of the
\* iteration
dev_ep_gfx_loop(xfer) ==
    LET is_read == IsReadTransfer(xfer.len)
        data == RecvData(xfer.len, xfer.data, gfx_io_data)
        r == dev_process_packet_gfx([xfer EXCEPT !.data = data], is_read)
        handled == Handled(xfer.len)
    IN  /\ ~exited
        /\ pc["gfx"] = "recv"
        /\ pc' = [pc EXCEPT !["gfx"] = "top"]
        /\ gfx_io_data' = data
        /\ pci_config' = IF handled THEN r.pci_config ELSE pci_config
        /\ keep_running' = IF handled THEN r.keep_running ELSE keep_running
        /\ log' = Append(log,
                Snapshot(LogEntry("gfx", xfer,
                                  IF handled THEN r.result ELSE NoResult,
                                  handled /\ is_read
                                    /\ ep_handle["gfx_in"] # -1),
                         bulk_state, vram, overflow))
        /\ UNCHANGED <<build, strict_bounds_check, bridge_reg, gfx_reg, vram,
                       bulk_state, overflow, ramtype_req, vramsize_req,
                       corner_hits, main_running, oob, bridge_io_data, loc,
                       cfg_in, cfg_out, ctlvars>>

\* while (keep_running && !device_init) in ep0_loop: on to the blocking
\* usb_raw_event_fetch, or out of the event loop
dev_ep0_top ==
    /\ ~exited
    /\ ep0_pc = "events"
    /\ ep0_pc' = IF keep_running /\ ~device_init THEN "fetch" ELSE "wait"
    /\ UNCHANGED <<build, strict_bounds_check, keep_running, pci_config,
                   bridge_reg, gfx_reg, vram, bulk_state, overflow,
                   ramtype_req, vramsize_req, corner_hits, main_running, oob,
                   gfx_io_data, bridge_io_data, pc, loc, log, cfg_in, cfg_out,
                   ep_handle, spawned, device_init, exited>>

\* usb_raw_event_fetch returns an event; the rest of the iteration.
\* SET_CONFIGURATION enables the endpoints that are not enabled and creates
\* the two workers if they were not created
dev_ep0_event(ev) ==
    LET r == IF ev.type = "CONTROL" THEN ep0_request(ev)
             ELSE Request(FALSE, 0, FALSE, FALSE)
    IN  /\ ~exited
        /\ ep0_pc = "fetch"
        /\ ep0_pc' = "events"
        /\ device_init' = (device_init \/ r.device_init)
        /\ ep_handle' = IF r.configure
                        THEN [e \in DOMAIN ep_handle |->
                                 IF ep_handle[e] = -1 THEN Enabled[e]
                                 ELSE ep_handle[e]]
                        ELSE ep_handle
        /\ spawned' = IF r.configure /\ spawned = 0 THEN 1 ELSE spawned
        /\ pc' = IF r.configure
                 THEN [w \in DOMAIN pc |->
                          IF pc[w] = "off" THEN "top" ELSE pc[w]]
                 ELSE pc
        /\ log' = Append(log,
                Snapshot(LogEntry("ep0", [event |-> ev],
                                  IF r.reply THEN FromNat(Ep0Length(ev, r))
                                  ELSE NoResult,
                                  r.reply),
                         bulk_state, vram, overflow))
        /\ UNCHANGED <<build, strict_bounds_check, keep_running, pci_config,
                       bridge_reg, gfx_reg, vram, bulk_state, overflow,
                       ramtype_req, vramsize_req, corner_hits, main_running,
                       oob, gfx_io_data, bridge_io_data, loc, cfg_in, cfg_out,
                       exited>>

\* while (1) { if (!keep_running) break; sleep(1); }, then ep0_loop returns
\* and main closes the device and returns: the process ends
dev_ep0_wait ==
    /\ ~exited
    /\ ep0_pc = "wait"
    /\ ~keep_running
    /\ ep0_pc' = "returned"
    /\ exited' = TRUE
    /\ UNCHANGED <<build, strict_bounds_check, keep_running, pci_config,
                   bridge_reg, gfx_reg, vram, bulk_state, overflow,
                   ramtype_req, vramsize_req, corner_hits, main_running, oob,
                   gfx_io_data, bridge_io_data, pc, loc, log, cfg_in, cfg_out,
                   ep_handle, spawned, device_init>>

MaxDevOps == 4

DevMenuEvents ==
    { OtherEvent("CONNECT"),
      ControlEvent(\h00, \h09, 1, 0),
      ControlEvent(\h80, \h06, \h305, 255) }

\* a PCI-config write and read, an I/O-register write, a 6-byte VRAM read
DevMenuGfx ==
    { Xfer(10, \h8f, FromNat(\h10), U32(\hA4A3, \hA2A1)),
      Xfer(6, \h8f, FromNat(\h10), Zero32),
      Xfer(10, \h14, FromNat(\hd044), FromNat(\h3a)),
      Xfer(6, \h0f, SISUSB_PCI_MEMBASE, Zero32) }

DevMenuBridge == { Xfer(10, \h1f, FromNat(\h50), FromNat(\hff)) }

InitDev ==
    /\ InitStores({"devinit"}, {Zero32})
    /\ ep_handle = NotEnabled
    /\ spawned = 0
    /\ pc = [w \in DevThreads |-> "off"]
    /\ loc = [w \in DevThreads |-> [data |-> <<>>, tmp |-> Zero32]]
    /\ cfg_in = [size_bytes |-> Zero32, mode |-> 0, mib |-> 0]

DevEp0Top == dev_ep0_top

DevEp0Event == Len(log) < MaxDevOps /\ \E ev \in DevMenuEvents : dev_ep0_event(ev)

DevEp0Wait == dev_ep0_wait

DevWorkerTop == \E w \in DevThreads : dev_worker_top(w)

DevBridge == Len(log) < MaxDevOps /\ \E x \in DevMenuBridge : dev_ep_bridge_loop(x)

DevGfx == Len(log) < MaxDevOps /\ \E x \in DevMenuGfx : dev_ep_gfx_loop(x)

NextDev ==
    \/ DevEp0Top
    \/ DevEp0Event
    \/ DevEp0Wait
    \/ DevWorkerTop
    \/ DevBridge
    \/ DevGfx

SpecDev == InitDev /\ [][NextDev]_vars

\* fair scheduling of the threads: a step a thread can take by itself (a
\* loop test, the return) is eventually taken; the arrival of an event or
\* of a transfer is up to the host
SpecDevFair ==
    /\ SpecDev
    /\ WF_vars(DevEp0Top)
    /\ WF_vars(DevEp0Wait)
    /\ \A w \in DevThreads : WF_vars(dev_worker_top(w))

\* C36: a GFX transfer whose header is not 0x008f changes no PCI-config
\* entry and clears keep_running; from then on, with no further transfer
\* required, the GFX worker leaves its loop and the control loop returns,
\* so that the process ends.
DeviceInitTerminates ==
    /\ [][(pc["gfx"] = "recv" /\ pc'["gfx"] = "top"
             /\ Handled(log'[Len(log')].xfer.len)
             /\ log'[Len(log')].xfer.hdr # \h8f)
          => (pci_config' = pci_config /\ ~keep_running')]_vars
    /\ ~keep_running ~> (pc["gfx"] = "done" \/ exited)
    /\ ~keep_running ~> exited

-----------------------------------------------------------------------------
(* the ioctl-test build: bulk chunks with the cursor around the VRAM end *)

TruncAddrs == { VramEnd(2), VramEnd(1), VramEnd(0) }

InitTrunc == InitState({"ioctl"}, {Zero32})

\* the driver's three configuration writes, the address drawn from TruncAddrs
TruncBridge ==
    \/ /\ Len(log) = 0
       /\ \E a \in TruncAddrs : ep_bridge_loop(BridgeWrite(\h194, a))
    \/ /\ Len(log) = 1
       /\ ep_bridge_loop(BridgeWrite(\h190, FromNat(EP_MAX_PACKET_BULK)))
    \/ /\ Len(log) = 2
       /\ ep_bridge_loop(BridgeWrite(\h180, FromNat(1)))

TruncChunks ==
    /\ Len(log) >= 3
    /\ Len(log) < 3 + MaxWrapChunks
    /\ \E d \in WrapMenuChunks : ep_bulk_iteration("bulk", d)

NextTrunc == TruncBridge \/ TruncChunks

SpecTrunc == InitTrunc /\ [][NextTrunc]_vars

\* C37: in the ioctl-test build a chunk of length L that does not fit is
\* cut to the VRAM_SIZE - (targetAddress - 0xD0000000) bytes that still
\* fit: the applied length is smaller than L and the bytes written lie
\* inside VRAM indices [0, VRAM_SIZE).
TruncationInBounds ==
    \A i \in 1..Len(log) :
        (/\ build = "ioctl"
         /\ IsChunk(log[i])
         /\ Overflowing(BulkStateBefore(i).address, Len(log[i].xfer.bytes)))
        => LET base == Sub32(BulkStateBefore(i).address, SISUSB_PCI_MEMBASE)
               L == FromNat(Len(log[i].xfer.bytes))
               applied == BulkApplied(base, L)
           IN  /\ applied = Sub32(FromNat(VRAM_SIZE), base)
               /\ Lt32(applied, L)
               /\ InsideVram(base, applied)
               /\ log[i].vram = MemCpy(VramBefore(i), Val(base),
                                       log[i].xfer.bytes, Val(applied))
               /\ ~oob

-----------------------------------------------------------------------------
(* the I/O branch of process_packet_gfx statement by statement, run by    *)
(* every GFX worker the SET_CONFIGURATION requests have created           *)

\* usb_raw_ep_read returns a 10-byte I/O-register write for an address in
\* range to the thread w; the register is written
gfx_io_recv(w, xfer) ==
    LET offset == LaneOffset(xfer.hdr % 16)
        address == Add32(ClearIoBase(xfer.addr), FromNat(offset))
        data == Byte(xfer.data, address.lo % 4)
    IN  /\ ~exited
        /\ pc[w] = "recv"
        /\ xfer.len = 10
        /\ xfer.hdr # PCI_HEADER /\ HeaderType(xfer.hdr) = SISUSB_TYPE_IO
        /\ Lt32(address, FromNat(GFX_REG_SIZE))
        /\ gfx_reg' = Store(gfx_reg, Val(address), FromNat(data), Zero32)
        /\ loc' = [loc EXCEPT ![w] = [xfer |-> xfer, address |-> address,
                                      data |-> data, result |-> Zero32]]
        /\ pc' = [pc EXCEPT ![w] = "ramtype"]
        /\ UNCHANGED <<build, strict_bounds_check, keep_running, pci_config,
                       bridge_reg, vram, bulk_state, overflow, ramtype_req,
                       vramsize_req, corner_hits, main_running, oob,
                       gfx_io_data, bridge_io_data, log, cfg_in, cfg_out,
                       ctlvars>>

\* if (ramtype_req) { result = RAM_TYPE; ramtype_req = false; }
gfx_io_ramtype(w) ==
    /\ ~exited
    /\ pc[w] = "ramtype"
    /\ loc' = [loc EXCEPT ![w].result =
                  IF ramtype_req THEN FromNat(RAM_TYPE) ELSE @]
    /\ ramtype_req' = FALSE
    /\ pc' = [pc EXCEPT ![w] = "vramsize"]
    /\ UNCHANGED <<build, strict_bounds_check, keep_running, pci_config,
                   bridge_reg, gfx_reg, vram, bulk_state, overflow,
                   vramsize_req, corner_hits, main_running, oob, gfx_io_data,
                   bridge_io_data, log, cfg_in, cfg_out, ctlvars>>

\* if (vramsize_req) { result = get_vram_config_reg(...); vramsize_req = false; }
gfx_io_vramsize(w) ==
    /\ ~exited
    /\ pc[w] = "vramsize"
    /\ loc' = [loc EXCEPT ![w].result =
                  IF vramsize_req
                  THEN FromNat(get_vram_config_reg(AdvertisedSize,
                                                   SISUSB_RAM_CONFIG))
                  ELSE @]
    /\ vramsize_req' = FALSE
    /\ pc' = [pc EXCEPT ![w] = "arm"]
    /\ UNCHANGED <<build, strict_bounds_check, keep_running, pci_config,
                   bridge_reg, gfx_reg, vram, bulk_state, overflow,
                   ramtype_req, corner_hits, main_running, oob, gfx_io_data,
                   bridge_io_data, log, cfg_in, cfg_out, ctlvars>>

\* if (address == 0x44) { if (data == 0x3a) ... else if (data == 0x14) ... },
\* the shift of the result, and back to the receive
gfx_io_arm(w) ==
    LET at44 == loc[w].address = FromNat(\h44)
    IN  /\ ~exited
        /\ pc[w] = "arm"
        /\ ramtype_req' = (ramtype_req \/ (at44 /\ loc[w].data = \h3a))
        /\ vramsize_req' = (vramsize_req
                              \/ (at44 /\ loc[w].data # \h3a
                                        /\ loc[w].data = \h14))
        /\ log' = Append(log,
                Snapshot(LogEntry("gfx", loc[w].xfer,
                                  Shl8(loc[w].result, loc[w].address.lo % 4),
                                  FALSE),
                         bulk_state, vram, overflow))
        /\ pc' = [pc EXCEPT ![w] = "recv"]
        /\ UNCHANGED <<build, strict_bounds_check, keep_running, pci_config,
                       bridge_reg, gfx_reg, vram, bulk_state, overflow,
                       corner_hits, main_running, oob, gfx_io_data,
                       bridge_io_data, loc, cfg_in, cfg_out, ctlvars>>

\* the two arming writes of the driver, and the first one again
QuerySeq ==
    << IoWrite(FromNat(\hd044), 1, FromNat(\h3a)),
       IoWrite(FromNat(\hd044), 1, FromNat(\h14)),
       IoWrite(FromNat(\hd044), 1, FromNat(\h3a)),
       IoWrite(FromNat(\hd080), 1, FromNat(\h14)) >>

\* the transfers the GFX workers have taken so far
QueryTaken ==
    Received("gfx")
        + Cardinality({w \in GfxThreads : pc[w] \notin {"off", "recv"}})

InitQuery ==
    /\ InitStores({"overflow", "ioctl"}, {Zero32})
    /\ ep_handle = NotEnabled
    /\ spawned = 0
    /\ pc = [w \in GfxThreads |-> "off"]
    /\ loc = [w \in GfxThreads |->
                 [xfer |-> QuerySeq[1], address |-> Zero32, data |-> 0,
                  result |-> Zero32]]
    /\ cfg_in = [size_bytes |-> Zero32, mode |-> 0, mib |-> 0]

QueryEvent ==
    /\ spawned < MaxConfigs
    /\ ep0_event(ControlEvent(\h00, \h09, 1, 0))

QueryRecv ==
    /\ QueryTaken < Len(QuerySeq)
    /\ \E w \in GfxThreads : gfx_io_recv(w, QuerySeq[QueryTaken + 1])

QueryRamtype == \E w \in GfxThreads : gfx_io_ramtype(w)

QueryVramsize == \E w \in GfxThreads : gfx_io_vramsize(w)

QueryArm == \E w \in GfxThreads : gfx_io_arm(w)

NextQuery ==
    \/ QueryEvent
    \/ QueryRecv
    \/ QueryRamtype
    \/ QueryVramsize
    \/ QueryArm

SpecQuery == InitQuery /\ [][NextQuery]_vars

\* C38: at most one one-shot query is pending at any time: the RAM-type
\* flag and the VRAM-size flag are never both set.
OneQueryPending == ~(ramtype_req /\ vramsize_req)

====
